---- MODULE Spec2Model ----
(***************************************************************************)
(* Projection, point-of-no-return and snapshot-build engine of the BarOps  *)
(* live dashboard.                                                         *)
(*                                                                         *)
(* Numbers.  Money is integer cents and instants are integer milliseconds, *)
(* as in the source.  JavaScript doubles that are not integers (baseline   *)
(* fractions, ramp weights, percentages) are modelled as exact rationals   *)
(* [n |-> numerator, d |-> denominator] with d > 0; Math.round is          *)
(* floor(x + 1/2) as in ECMAScript.  A nullable value is <<>> for null and   *)
(* <<v>> for the value v.                                                  *)
(***************************************************************************)
EXTENDS Integers, Sequences, FiniteSets, TLC

VARIABLES
    pc,                 \* position of the call under analysis
    currentRevenueCents, baselineFractionAtNow, rollingAverageRevenueCents,
    elapsedFraction,    \* arguments of computeProjection
    isClosed,           \* operatingHours.isClosed of the business day
    projection,         \* the ProjectionMetrics a snapshot carries, or "null"
    comparableBucketSeries, \* per-bucket revenue series of the comparable nights
    bucketCount,        \* number of buckets of the current night
    baselineFractions,  \* result of buildBaselineFractions, or <<>> before the call
    normalizedFractions, \* result of normalizeFractions, or <<>> before the call
    ponrIn,             \* arguments of the point-of-no-return builders
    ponrOut,            \* the PointOfNoReturnSnapshot built, or "null"
    callIn,             \* arguments of a helper call under analysis
    excludedOpenOrderBaselineByServiceDay, \* the module-level Map, in insertion order
    callOut,            \* what the helper returned, or "null" before the call
    upstream,           \* what Square and Deputy would answer to each fetch
    fetched,            \* outcome of each fetch of a snapshot build so far
    buildResult         \* the RealtimeBuildResult returned, or "null"

projVars == <<currentRevenueCents, baselineFractionAtNow,
              rollingAverageRevenueCents, elapsedFraction, isClosed, projection>>

baseVars == <<comparableBucketSeries, bucketCount, baselineFractions,
              normalizedFractions>>

ponrVars == <<ponrIn, ponrOut>>

callVars == <<callIn, callOut, excludedOpenOrderBaselineByServiceDay>>

buildVars == <<upstream, fetched, buildResult>>

vars == <<pc, projVars, baseVars, ponrVars, callVars, buildVars>>

NULL == <<>>

Some(v) == <<v>>

\* no helper call and no snapshot build is under analysis
CallsIdle ==
    callIn = NULL /\ callOut = NULL /\ excludedOpenOrderBaselineByServiceDay = <<>>

BuildIdle == upstream = NULL /\ fetched = NULL /\ buildResult = NULL

\* the number a nullable operand of an arithmetic operator stands for
\* (ECMAScript ToNumber: null is 0)
NumOf(x) == IF x = NULL THEN 0 ELSE x[1]

----------------------------------------------------------------------------
(* Exact rational arithmetic standing for IEEE doubles. *)

Abs(x) == IF x < 0 THEN -x ELSE x

RECURSIVE GCD(_, _)
GCD(a, b) == IF b = 0 THEN a ELSE GCD(b, a % b)

LCM(a, b) == (a \div GCD(a, b)) * b

Rat(n, d) ==
    LET g == GCD(Abs(n), d)
    IN  IF n = 0 THEN [n |-> 0, d |-> 1] ELSE [n |-> n \div g, d |-> d \div g]

RInt(k) == [n |-> k, d |-> 1]

RAdd(a, b) ==
    LET l == LCM(a.d, b.d)
    IN  Rat(a.n * (l \div a.d) + b.n * (l \div b.d), l)

RNeg(a) == [n |-> -a.n, d |-> a.d]

RSub(a, b) == RAdd(a, RNeg(b))

RMul(a, b) ==
    LET g1 == GCD(Abs(a.n), b.d)
        g2 == GCD(Abs(b.n), a.d)
        h1 == IF g1 = 0 THEN 1 ELSE g1
        h2 == IF g2 = 0 THEN 1 ELSE g2
    IN  Rat((a.n \div h1) * (b.n \div h2), (a.d \div h2) * (b.d \div h1))

\* a / b for b # 0
RDiv(a, b) ==
    IF b.n > 0 THEN RMul(a, [n |-> b.d, d |-> b.n])
    ELSE RMul(a, [n |-> -b.d, d |-> -b.n])

\* n1/d1 < n2/d2 by comparing the integer parts and then, reciprocally, the
\* fractional parts; no product is formed
RECURSIVE RatLess(_, _, _, _)
RatLess(n1, d1, n2, d2) ==
    IF n1 \div d1 # n2 \div d2 THEN n1 \div d1 < n2 \div d2
    ELSE IF n2 % d2 = 0 THEN FALSE
    ELSE IF n1 % d1 = 0 THEN TRUE
    ELSE RatLess(d2, n2 % d2, d1, n1 % d1)

RLt(a, b) == RatLess(a.n, a.d, b.n, b.d)

RLe(a, b) == ~RLt(b, a)

REq(a, b) == ~RLt(a, b) /\ ~RLt(b, a)

RMin(a, b) == IF RLt(b, a) THEN b ELSE a

RMax(a, b) == IF RLt(a, b) THEN b ELSE a

\* Math.round: the integer nearest to x, ties towards +Infinity
Round(a) == (2 * a.n + a.d) \div (2 * a.d)

\* Math.floor and Math.ceil
Floor(a) == a.n \div a.d

Ceil(a) == -((-a.n) \div a.d)

Min(a, b) == IF b < a THEN b ELSE a

Max(a, b) == IF a < b THEN b ELSE a

----------------------------------------------------------------------------
(* src/lib/math.ts *)

\* clamp on doubles
clamp(value, min, max) == RMin(RMax(value, min), max)

\* clamp on integers
clampInt(value, min, max) == Min(Max(value, min), max)

RAMP_FACTOR == Rat(165, 100)

BASELINE_GUARD == Rat(3, 100)

MIN_RAMP_WEIGHT == Rat(1, 10)

RECURSIVE SumTo(_, _)
SumTo(values, k) == IF k = 0 THEN 0 ELSE SumTo(values, k - 1) + values[k]

\* variant: the series itself instead of its running total
cumulativeNoCarry(values) == values

\* variant: the running total before the element is added
cumulativeExclusive(values) == [i \in 1..Len(values) |-> SumTo(values, i - 1)]

\* values.map with a running total
cumulative(values) == [i \in 1..Len(values) |-> SumTo(values, i)]

RECURSIVE RSumOver(_, _)
RSumOver(rats, k) == IF k = 0 THEN RInt(0) ELSE RAdd(RSumOver(rats, k - 1), rats[k])

RECURSIVE MaxLength(_, _)
MaxLength(series, k) ==
    IF k = 0 THEN 0 ELSE Max(MaxLength(series, k - 1), Len(series[k]))

SENTINEL_FRACTION == Rat(2, 100)

buildBaselineFractions(series) ==
    LET maxBuckets == MaxLength(series, Len(series))
        perNight(s) ==
            LET total == SumTo(s, Len(s))
                cumulativeValues == cumulative(s)
            IN  IF total <= 0 THEN [i \in 1..maxBuckets |-> RInt(0)]
                ELSE [i \in 1..maxBuckets |->
                        clamp(Rat(cumulativeValues[Min(i, Len(cumulativeValues))], total),
                              RInt(0), RInt(1))]
        perNightFractions == [k \in 1..Len(series) |-> perNight(series[k])]
    IN  IF maxBuckets = 0 THEN <<SENTINEL_FRACTION>>
        ELSE [i \in 1..maxBuckets |->
                clamp(RDiv(RSumOver([k \in 1..Len(series) |-> perNightFractions[k][i]],
                                    Len(series)),
                           RInt(Len(series))),
                      RInt(0), RInt(1))]

buildFallbackFractions(count) ==
    IF count <= 0 THEN <<RInt(0)>>
    ELSE [i \in 1..count |-> IF count = 1 THEN RInt(1) ELSE Rat(i, count)]

normalizeFractions(fractions, count) ==
    IF count <= 0 THEN <<RInt(0)>>
    ELSE IF Len(fractions) = count THEN fractions
    ELSE IF Len(fractions) = 0 THEN buildFallbackFractions(count)
    ELSE IF Len(fractions) > count THEN SubSeq(fractions, 1, count)
    ELSE LET last == fractions[Len(fractions)]
             remaining == count - Len(fractions)
         IN  fractions \o
             [step \in 1..remaining |->
                clamp(RAdd(last, RDiv(RMul(RSub(RInt(1), last), RInt(step)),
                                      RInt(remaining))),
                      RInt(0), RInt(1))]

\* variant: the ramp weight without its upper clamp
rampWeightUnclamped(guardedBaseline) ==
    RMax(RMul(guardedBaseline, RAMP_FACTOR), MIN_RAMP_WEIGHT)

rampWeightOf(guardedBaseline) ==
    LET rampProgress == clamp(guardedBaseline, RInt(0), RInt(1))
    IN  clamp(RMul(rampProgress, RAMP_FACTOR), MIN_RAMP_WEIGHT, RInt(1))

\* variant: the fallback test written as >= 0
rawProjectedNoFallback(current, stableBaseline, guardedBaseline, rollingAverage) ==
    IF RLe(RInt(0), stableBaseline)
    THEN Round(RDiv(RInt(current), guardedBaseline))
    ELSE rollingAverage

\* variant: the division by the unguarded baseline
rawProjectedUnguarded(current, stableBaseline, guardedBaseline, rollingAverage) ==
    IF RLt(RInt(0), stableBaseline)
    THEN Round(RDiv(RInt(current), stableBaseline))
    ELSE rollingAverage

rawProjectedOf(current, stableBaseline, guardedBaseline, rollingAverage) ==
    IF RLt(RInt(0), stableBaseline)
    THEN Round(RDiv(RInt(current), guardedBaseline))
    ELSE rollingAverage

computeProjection(current, baselineFraction, rollingAverage, elapsed) ==
    LET stableBaseline == clamp(baselineFraction, RInt(0), RInt(1))
        guardedBaseline ==
            IF RLt(stableBaseline, BASELINE_GUARD) THEN BASELINE_GUARD
            ELSE stableBaseline
        rawProjectedTotalCents ==
            rawProjectedOf(current, stableBaseline, guardedBaseline, rollingAverage)
        rampWeight == rampWeightOf(guardedBaseline)
        rampedProjectedTotalCents ==
            Round(RAdd(RMul(RInt(rawProjectedTotalCents), rampWeight),
                       RMul(RInt(rollingAverage), RSub(RInt(1), rampWeight))))
    IN  [ baselineFraction |-> stableBaseline,
          rawProjectedTotalCents |-> rawProjectedTotalCents,
          rampedProjectedTotalCents |-> rampedProjectedTotalCents,
          rampWeight |-> rampWeight,
          elapsedFraction |-> clamp(elapsed, RInt(0), RInt(1)) ]

\* the projection field of buildClosedSnapshot's result
closedProjection ==
    [ baselineFraction |-> RInt(0),
      rawProjectedTotalCents |-> 0,
      rampedProjectedTotalCents |-> 0,
      rampWeight |-> RInt(0),
      elapsedFraction |-> RInt(0) ]

----------------------------------------------------------------------------
(* src/lib/realtimeSnapshot.ts and src/lib/mockData.ts: point of no return *)

BUCKET_MINUTES == 15

BUCKET_MILLISECONDS == BUCKET_MINUTES * 60 * 1000

MS_PER_HOUR == 3600000

MS_PER_MINUTE == 60000

DAY_KEYS == <<"monday", "tuesday", "wednesday", "thursday", "friday",
              "saturday", "sunday">>

\* variant: the scan for the last open day started from the front
RECURSIVE firstOpenFrom(_, _)
firstOpenFrom(closedDays, index) ==
    IF index > Len(DAY_KEYS) THEN NULL
    ELSE IF DAY_KEYS[index] \notin closedDays THEN Some(DAY_KEYS[index])
    ELSE firstOpenFrom(closedDays, index + 1)

getFirstOpenDayKey(closedDays) == firstOpenFrom(closedDays, 1)

RECURSIVE lastOpenFrom(_, _)
lastOpenFrom(closedDays, index) ==
    IF index < 1 THEN NULL
    ELSE IF DAY_KEYS[index] \notin closedDays THEN Some(DAY_KEYS[index])
    ELSE lastOpenFrom(closedDays, index - 1)

\* closedDays: the days whose dailyOperatingHours entry has isClosed
getLastOpenDayKey(closedDays) == lastOpenFrom(closedDays, Len(DAY_KEYS))

\* variant: 0 instead of null when there is nothing to divide by
toPercentZeroWithoutDenominator(numerator, denominator) ==
    IF denominator <= 0 THEN Some(RInt(0))
    ELSE Some(RMul(Rat(numerator, denominator), RInt(100)))

toPercent(numerator, denominator) ==
    IF denominator <= 0 THEN NULL
    ELSE Some(RMul(Rat(numerator, denominator), RInt(100)))

\* array[index] ?? default, index counted from 0
At0(array, index, default) ==
    IF index >= 0 /\ index < Len(array) THEN array[index + 1] ELSE default

buildUnavailablePointOfNoReturn(targetWagePercent, hasShiftWindow) ==
    [ targetWagePercent |-> targetWagePercent,
      status |-> "unavailable",
      pointTimeMs |-> NULL,
      minutesFromNow |-> NULL,
      projectedWeekWagePercentAtNow |-> NULL,
      hasShiftWindow |-> hasShiftWindow ]

buildNotLastShiftPointOfNoReturn(targetWagePercent, hasShiftWindow) ==
    [ targetWagePercent |-> targetWagePercent,
      status |-> "not_last_shift",
      pointTimeMs |-> NULL,
      minutesFromNow |-> NULL,
      projectedWeekWagePercentAtNow |-> NULL,
      hasShiftWindow |-> hasShiftWindow ]

\* The scalars and prefix sums buildPointOfNoReturnSnapshot derives from its
\* arguments before it builds the expected curve.
ponrContext(in) ==
    LET bucketCnt == Len(in.closedRevenueByBucket)
        currentBucketIndex ==
            IF in.completedBucketCount > 0
            THEN clampInt(in.completedBucketCount - 1, 0, bucketCnt - 1)
            ELSE 0
        shiftStartBucketIndex ==
            clampInt(Floor(Rat(in.shiftStartMs - in.windowStartMs, BUCKET_MILLISECONDS)),
                     0, bucketCnt)
        shiftEndBucketExclusive ==
            clampInt(Ceil(Rat(in.shiftEndMs - in.windowStartMs, BUCKET_MILLISECONDS)),
                     0, bucketCnt)
        adjustedRevenueByBucket ==
            [i \in 1..bucketCnt |->
                IF in.completedBucketCount > 0 /\ i - 1 = currentBucketIndex
                THEN in.closedRevenueByBucket[i] + in.openBillsCents
                ELSE in.closedRevenueByBucket[i]]
        cumulativeClosedRevenue == cumulative(in.closedRevenueByBucket)
        cumulativeAdjustedRevenue == cumulative(adjustedRevenueByBucket)
        cumulativeLabor == cumulative(in.laborByBucket)
        beforeShiftClosed ==
            IF shiftStartBucketIndex > 0
            THEN At0(cumulativeClosedRevenue, shiftStartBucketIndex - 1, 0) ELSE 0
        beforeShiftAdjusted ==
            IF shiftStartBucketIndex > 0
            THEN At0(cumulativeAdjustedRevenue, shiftStartBucketIndex - 1, 0) ELSE 0
        beforeShiftLabor ==
            IF shiftStartBucketIndex > 0
            THEN At0(cumulativeLabor, shiftStartBucketIndex - 1, 0) ELSE 0
        currentClosedTotal ==
            IF in.completedBucketCount > 0
            THEN At0(cumulativeClosedRevenue, currentBucketIndex, 0) ELSE 0
        currentAdjustedTotal ==
            IF in.completedBucketCount > 0
            THEN At0(cumulativeAdjustedRevenue, currentBucketIndex, 0) ELSE 0
        currentLaborTotal ==
            IF in.completedBucketCount > 0
            THEN At0(cumulativeLabor, currentBucketIndex, 0) ELSE 0
        shiftClosedNow == Max(0, currentClosedTotal - beforeShiftClosed)
        shiftAdjustedNow == Max(0, currentAdjustedTotal - beforeShiftAdjusted)
        shiftLaborNow == Max(0, currentLaborTotal - beforeShiftLabor)
        baselineBeforeShift ==
            IF shiftStartBucketIndex > 0
            THEN At0(in.baselineFractions, shiftStartBucketIndex - 1, RInt(0))
            ELSE RInt(0)
        rawExpected ==
            [i \in 1..bucketCnt |->
                LET baselineAtIndex == At0(in.baselineFractions, i - 1, RInt(1))
                    shiftFraction ==
                        RMax(RInt(0), RSub(baselineAtIndex, baselineBeforeShift))
                IN  Round(RMul(RInt(in.projectedRevenueCents), shiftFraction))]
        expectedShiftNowRaw ==
            IF shiftStartBucketIndex <= currentBucketIndex
            THEN At0(rawExpected, currentBucketIndex, 0) ELSE 0
    IN  [ bucketCount |-> bucketCnt,
          currentBucketIndex |-> currentBucketIndex,
          shiftStartBucketIndex |-> shiftStartBucketIndex,
          shiftEndBucketExclusive |-> shiftEndBucketExclusive,
          cumulativeAdjustedRevenue |-> cumulativeAdjustedRevenue,
          cumulativeLabor |-> cumulativeLabor,
          beforeShiftAdjusted |-> beforeShiftAdjusted,
          beforeShiftLabor |-> beforeShiftLabor,
          shiftClosedNow |-> shiftClosedNow,
          shiftAdjustedNow |-> shiftAdjustedNow,
          shiftLaborNow |-> shiftLaborNow,
          weekRevenueBeforeShift |->
              Max(0, NumOf(in.weeklyRevenueToDateCents) - shiftClosedNow),
          weekWagesBeforeShift |->
              Max(0, NumOf(in.weeklyWagesToDateCents) - shiftLaborNow),
          rawExpectedShiftCumulativeByBucket |-> rawExpected,
          shiftAlignment |-> shiftAdjustedNow - expectedShiftNowRaw ]

\* alignedExpectedShiftCumulativeByBucket[index] (index from 0) inside the
\* shift's bucket range; runningExpectedShift after bucket index is the same value
RECURSIVE alignedAt(_, _)
alignedAt(c, index) ==
    LET runningExpectedShift ==
            IF index <= c.shiftStartBucketIndex THEN 0 ELSE alignedAt(c, index - 1)
        rawShiftValue == At0(c.rawExpectedShiftCumulativeByBucket, index, 0)
        aligned == Max(runningExpectedShift, Max(0, rawShiftValue + c.shiftAlignment))
    IN  IF index = c.currentBucketIndex
        THEN Max(runningExpectedShift, c.shiftAdjustedNow)
        ELSE aligned

\* variant: the raw expected curve, without the additive offset that carries
\* it through the observed point
rawExpectedShiftCurve(c) ==
    [i \in 1..c.bucketCount |->
        IF i - 1 >= c.shiftStartBucketIndex /\ i - 1 < c.shiftEndBucketExclusive
        THEN Max(0, At0(c.rawExpectedShiftCumulativeByBucket, i - 1, 0)) ELSE 0]

alignedExpectedShiftCumulativeByBucket(c) ==
    [i \in 1..c.bucketCount |->
        IF i - 1 >= c.shiftStartBucketIndex /\ i - 1 < c.shiftEndBucketExclusive
        THEN alignedAt(c, i - 1) ELSE 0]

\* pushPoint: the sample (timeMs, projected week wage percent) of one instant
pnrPoint(in, c, expectedShiftClose, timeMs, revenueSoFarShiftCents, expectedRevenueSoFarShiftCents, wagesSoFarShiftCents) ==
    LET expectedRemainingRevenueCents ==
            Max(0, expectedShiftClose - expectedRevenueSoFarShiftCents)
        remainingShiftHours ==
            RMax(RInt(0), Rat(in.shiftEndMs - timeMs, MS_PER_HOUR))
        oneStaffRemainingWagesCents ==
            Round(RMul(remainingShiftHours, RInt(in.averageHourlyRateCents)))
        projectedWeekRevenueCents ==
            c.weekRevenueBeforeShift + revenueSoFarShiftCents
                + expectedRemainingRevenueCents
        projectedWeekWagesCents ==
            c.weekWagesBeforeShift + wagesSoFarShiftCents
                + oneStaffRemainingWagesCents
    IN  [ timeMs |-> timeMs,
          projectedWeekWagePercent |->
              toPercent(projectedWeekWagesCents, projectedWeekRevenueCents) ]

boundaryTimeMs(in, bucketIndex) ==
    Min(in.shiftEndMs, in.windowStartMs + (bucketIndex + 1) * BUCKET_MILLISECONDS)

\* the loop over the bucket boundaries already behind effectiveNow
RECURSIVE pastPoints(_, _, _, _, _)
pastPoints(in, c, alignedCurve, expectedShiftClose, bucketIndex) ==
    IF bucketIndex >= c.shiftEndBucketExclusive THEN <<>>
    ELSE IF boundaryTimeMs(in, bucketIndex) >= in.effectiveNowMs THEN <<>>
    ELSE LET actualShiftRevenue ==
                 Max(0, At0(c.cumulativeAdjustedRevenue, bucketIndex, 0)
                          - c.beforeShiftAdjusted)
             actualShiftWages ==
                 Max(0, At0(c.cumulativeLabor, bucketIndex, 0) - c.beforeShiftLabor)
             expectedShiftRevenue == At0(alignedCurve, bucketIndex, actualShiftRevenue)
         IN  <<pnrPoint(in, c, expectedShiftClose, boundaryTimeMs(in, bucketIndex),
                        actualShiftRevenue, expectedShiftRevenue, actualShiftWages)>>
             \o pastPoints(in, c, alignedCurve, expectedShiftClose, bucketIndex + 1)

\* the loop over the bucket boundaries still ahead of effectiveNow
RECURSIVE futurePoints(_, _, _, _, _)
futurePoints(in, c, alignedCurve, expectedShiftClose, bucketIndex) ==
    IF bucketIndex >= c.shiftEndBucketExclusive THEN <<>>
    ELSE IF boundaryTimeMs(in, bucketIndex) <= in.effectiveNowMs
    THEN futurePoints(in, c, alignedCurve, expectedShiftClose, bucketIndex + 1)
    ELSE LET expectedShiftRevenue ==
                 Max(c.shiftAdjustedNow,
                     At0(alignedCurve, bucketIndex, c.shiftAdjustedNow))
             projectedShiftWages ==
                 c.shiftLaborNow
                 + Round(RMul(Rat(boundaryTimeMs(in, bucketIndex) - in.effectiveNowMs,
                                  MS_PER_HOUR),
                              RInt(in.currentHourlySpendRateCents)))
         IN  <<pnrPoint(in, c, expectedShiftClose, boundaryTimeMs(in, bucketIndex),
                        expectedShiftRevenue, expectedShiftRevenue, projectedShiftWages)>>
             \o futurePoints(in, c, alignedCurve, expectedShiftClose, bucketIndex + 1)

\* all sample points of the shift, in the order the builder pushes them
pnrPoints(in, c, alignedCurve, expectedShiftClose) ==
    <<pnrPoint(in, c, expectedShiftClose, in.shiftStartMs, 0, 0, 0)>>
    \o pastPoints(in, c, alignedCurve, expectedShiftClose, c.shiftStartBucketIndex)
    \o <<pnrPoint(in, c, expectedShiftClose, in.effectiveNowMs,
                  c.shiftAdjustedNow, c.shiftAdjustedNow, c.shiftLaborNow)>>
    \o futurePoints(in, c, alignedCurve, expectedShiftClose,
                    Max(c.currentBucketIndex, c.shiftStartBucketIndex))

validPointsOf(points) ==
    SelectSeq(points, LAMBDA point : point.projectedWeekWagePercent # NULL)

FLAT_DELTA == Rat(1, 100000)

\* variant: no interpolation, the crossing is the sample that reached the target
crossingAtSample(validPoints, index, targetWagePercent) == validPoints[index].timeMs

\* the crossing the walk reports at the first valid point at or above the
\* target, index counted from 1
crossingAt(validPoints, index, targetWagePercent) ==
    LET point == validPoints[index]
        previousPoint == validPoints[index - 1]
        previousDelta ==
            RSub(previousPoint.projectedWeekWagePercent[1], targetWagePercent)
        currentDelta == RSub(point.projectedWeekWagePercent[1], targetWagePercent)
        deltaChange == RSub(currentDelta, previousDelta)
        absChange == IF deltaChange.n < 0 THEN RNeg(deltaChange) ELSE deltaChange
        interpolation ==
            clamp(RDiv(RNeg(previousDelta), deltaChange), RInt(0), RInt(1))
    IN  IF index = 1 THEN point.timeMs
        ELSE IF RLe(targetWagePercent, previousPoint.projectedWeekWagePercent[1])
        THEN previousPoint.timeMs
        ELSE IF RLt(absChange, FLAT_DELTA) THEN point.timeMs
        ELSE previousPoint.timeMs
             + Round(RMul(RInt(point.timeMs - previousPoint.timeMs), interpolation))

\* the walk over the valid points: crossingTimeMs, or null when none crosses
RECURSIVE crossingFrom(_, _, _)
crossingFrom(validPoints, index, targetWagePercent) ==
    IF index > Len(validPoints) THEN NULL
    ELSE IF RLt(validPoints[index].projectedWeekWagePercent[1], targetWagePercent)
    THEN crossingFrom(validPoints, index + 1, targetWagePercent)
    ELSE Some(crossingAt(validPoints, index, targetWagePercent))

\* variant: only the first valid sample is compared with the target
findCrossingFirstSampleOnly(validPoints, targetWagePercent) ==
    IF RLt(validPoints[1].projectedWeekWagePercent[1], targetWagePercent) THEN NULL
    ELSE Some(validPoints[1].timeMs)

findCrossingTimeMs(validPoints, targetWagePercent) ==
    crossingFrom(validPoints, 1, targetWagePercent)

\* points.find(point => point.timeMs === effectiveNowMs)?.projectedWeekWagePercent
RECURSIVE percentAtTime(_, _, _)
percentAtTime(points, index, timeMs) ==
    IF index > Len(points) THEN NULL
    ELSE IF points[index].timeMs = timeMs THEN points[index].projectedWeekWagePercent
    ELSE percentAtTime(points, index + 1, timeMs)

\* variant: a crossing at effectiveNow itself still counts as upcoming
crossingResultStrict(in, points, crossingTimeMs) ==
    LET atNow == percentAtTime(points, 1, in.effectiveNowMs)
    IN  IF crossingTimeMs = NULL
        THEN [ targetWagePercent |-> in.targetWagePercent,
               status |-> "safe_all_shift",
               pointTimeMs |-> NULL,
               minutesFromNow |-> NULL,
               projectedWeekWagePercentAtNow |-> atNow,
               hasShiftWindow |-> TRUE ]
        ELSE [ targetWagePercent |-> in.targetWagePercent,
               status |-> IF crossingTimeMs[1] < in.effectiveNowMs THEN "passed"
                          ELSE "upcoming",
               pointTimeMs |-> crossingTimeMs,
               minutesFromNow |->
                   Some(Round(Rat(crossingTimeMs[1] - in.effectiveNowMs,
                                  MS_PER_MINUTE))),
               projectedWeekWagePercentAtNow |-> atNow,
               hasShiftWindow |-> TRUE ]

\* the result once a crossing time (or none) is known
crossingResult(in, points, crossingTimeMs) ==
    LET atNow == percentAtTime(points, 1, in.effectiveNowMs)
    IN  IF crossingTimeMs = NULL
        THEN [ targetWagePercent |-> in.targetWagePercent,
               status |-> "safe_all_shift",
               pointTimeMs |-> NULL,
               minutesFromNow |-> NULL,
               projectedWeekWagePercentAtNow |-> atNow,
               hasShiftWindow |-> TRUE ]
        ELSE [ targetWagePercent |-> in.targetWagePercent,
               status |-> IF crossingTimeMs[1] <= in.effectiveNowMs THEN "passed"
                          ELSE "upcoming",
               pointTimeMs |-> crossingTimeMs,
               minutesFromNow |->
                   Some(Round(Rat(crossingTimeMs[1] - in.effectiveNowMs,
                                  MS_PER_MINUTE))),
               projectedWeekWagePercentAtNow |-> atNow,
               hasShiftWindow |-> TRUE ]

\* variant: the weekly totals checked before the day and window guards
ponrGuardWeeklyFirst(in) ==
    IF in.weeklyRevenueToDateCents = NULL \/ in.weeklyWagesToDateCents = NULL
    THEN "unavailable"
    ELSE IF getLastOpenDayKey(in.closedDays) = NULL THEN "unavailable"
    ELSE IF Some(in.dayKey) # getLastOpenDayKey(in.closedDays) THEN "not_last_shift"
    ELSE IF in.effectiveNowMs < in.shiftStartMs \/ in.effectiveNowMs > in.shiftEndMs
    THEN "not_last_shift_window"
    ELSE "proceed"

\* variant: no check of effectiveNow against the shift window
ponrGuardNoWindow(in) ==
    IF getLastOpenDayKey(in.closedDays) = NULL THEN "unavailable"
    ELSE IF Some(in.dayKey) # getLastOpenDayKey(in.closedDays) THEN "not_last_shift"
    ELSE IF in.weeklyRevenueToDateCents = NULL \/ in.weeklyWagesToDateCents = NULL
    THEN "unavailable_window"
    ELSE "proceed"

\* variant: a missing weekly total read as 0 instead of refusing
ponrGuardNoWeekly(in) ==
    IF getLastOpenDayKey(in.closedDays) = NULL THEN "unavailable"
    ELSE IF Some(in.dayKey) # getLastOpenDayKey(in.closedDays) THEN "not_last_shift"
    ELSE IF in.effectiveNowMs < in.shiftStartMs \/ in.effectiveNowMs > in.shiftEndMs
    THEN "not_last_shift_window"
    ELSE "proceed"

\* the guards at the head of buildPointOfNoReturnSnapshot, in source order
ponrGuard(in) ==
    IF getLastOpenDayKey(in.closedDays) = NULL THEN "unavailable"
    ELSE IF Some(in.dayKey) # getLastOpenDayKey(in.closedDays) THEN "not_last_shift"
    ELSE IF in.effectiveNowMs < in.shiftStartMs \/ in.effectiveNowMs > in.shiftEndMs
    THEN "not_last_shift_window"
    ELSE IF in.weeklyRevenueToDateCents = NULL \/ in.weeklyWagesToDateCents = NULL
    THEN "unavailable_window"
    ELSE "proceed"

\* expectedShiftClose: the aligned expected shift revenue at the closing bucket
expectedShiftCloseOf(in) ==
    LET c == ponrContext(in)
    IN  At0(alignedExpectedShiftCumulativeByBucket(c), c.shiftEndBucketExclusive - 1,
            c.shiftAdjustedNow)

\* points: every sample the builder pushes, for inputs that pass the guards
pnrSamplePoints(in) ==
    LET c == ponrContext(in)
    IN  pnrPoints(in, c, alignedExpectedShiftCumulativeByBucket(c),
                  expectedShiftCloseOf(in))

buildPointOfNoReturnSnapshot(in) ==
    LET guard == ponrGuard(in)
        c == ponrContext(in)
        points == pnrSamplePoints(in)
        validPoints == validPointsOf(points)
    IN  IF guard = "unavailable"
        THEN buildUnavailablePointOfNoReturn(in.targetWagePercent, FALSE)
        ELSE IF guard = "not_last_shift"
        THEN buildNotLastShiftPointOfNoReturn(in.targetWagePercent, FALSE)
        ELSE IF guard = "not_last_shift_window"
        THEN buildNotLastShiftPointOfNoReturn(in.targetWagePercent, TRUE)
        ELSE IF guard = "unavailable_window"
        THEN buildUnavailablePointOfNoReturn(in.targetWagePercent, TRUE)
        ELSE IF c.bucketCount = 0 \/ Len(in.laborByBucket) # c.bucketCount
        THEN buildUnavailablePointOfNoReturn(in.targetWagePercent, TRUE)
        ELSE IF c.shiftEndBucketExclusive <= c.shiftStartBucketIndex
        THEN buildUnavailablePointOfNoReturn(in.targetWagePercent, TRUE)
        ELSE IF expectedShiftCloseOf(in) <= 0
        THEN buildUnavailablePointOfNoReturn(in.targetWagePercent, TRUE)
        ELSE IF Len(points) = 0
        THEN buildUnavailablePointOfNoReturn(in.targetWagePercent, TRUE)
        ELSE IF Len(validPoints) = 0
        THEN buildUnavailablePointOfNoReturn(in.targetWagePercent, TRUE)
        ELSE crossingResult(in, points,
                            findCrossingTimeMs(validPoints, in.targetWagePercent))

SAFE_MARGIN == Rat(-12, 10)

buildSamplePointOfNoReturn(in) ==
    LET lastOpenDayKey == getLastOpenDayKey(in.closedDays)
        atNow == in.samplePercentAtNow
        deltaPercent == RSub(atNow[1], in.targetWagePercent)
        absDelta == IF deltaPercent.n < 0 THEN RNeg(deltaPercent) ELSE deltaPercent
        minutesMagnitude == Max(8, Min(210, Round(RMul(absDelta, RInt(75)))))
        result(status, pointTimeMs, minutesFromNow) ==
            [ targetWagePercent |-> in.targetWagePercent,
              status |-> status,
              pointTimeMs |-> pointTimeMs,
              minutesFromNow |-> minutesFromNow,
              projectedWeekWagePercentAtNow |-> atNow,
              hasShiftWindow |-> FALSE ]
    IN  IF lastOpenDayKey = NULL THEN result("unavailable", NULL, NULL)
        ELSE IF Some(in.dayKey) # lastOpenDayKey
        THEN result("not_last_shift", NULL, NULL)
        ELSE IF atNow = NULL THEN result("unavailable", NULL, NULL)
        ELSE IF RLe(deltaPercent, SAFE_MARGIN)
        THEN result("safe_all_shift", NULL, NULL)
        ELSE IF RLt(RInt(0), deltaPercent)
        THEN result("passed",
                    Some(in.effectiveNowMs - minutesMagnitude * MS_PER_MINUTE),
                    Some(-minutesMagnitude))
        ELSE result("upcoming",
                    Some(in.effectiveNowMs + minutesMagnitude * MS_PER_MINUTE),
                    Some(minutesMagnitude))

----------------------------------------------------------------------------
(* Projection engine: computeProjection on enumerated arguments, and the   *)
(* projection a snapshot of a closed day carries.                          *)

RevenueInputs == {0, 1, 3, 50, 2999, 100000}

AverageInputs == {0, 1, 40, 3000, 200000}

\* baseline fractions as the callers supply them (clamped to [0,1])
FractionInputs ==
    { Rat(0, 1), Rat(1, 100), Rat(3, 100), Rat(1, 20), Rat(1, 10), Rat(1, 3),
      Rat(1, 2), Rat(20, 33), Rat(2, 3), Rat(1, 1) }

ElapsedInputs == { Rat(0, 1), Rat(1, 4), Rat(1, 2), Rat(1, 1) }

InitProjection ==
    /\ pc = "start"
    /\ currentRevenueCents \in RevenueInputs
    /\ baselineFractionAtNow \in FractionInputs
    /\ rollingAverageRevenueCents \in AverageInputs
    /\ elapsedFraction \in ElapsedInputs
    /\ isClosed \in BOOLEAN
    /\ projection = NULL
    /\ comparableBucketSeries = <<>>
    /\ bucketCount = 0
    /\ baselineFractions = <<>>
    /\ normalizedFractions = <<>>
    /\ ponrIn = NULL
    /\ ponrOut = NULL
    /\ CallsIdle
    /\ BuildIdle

\* a snapshot of an open day: projection = computeProjection(...)
ComputeProjection ==
    /\ pc = "start"
    /\ ~isClosed
    /\ projection' = computeProjection(currentRevenueCents, baselineFractionAtNow,
                                       rollingAverageRevenueCents, elapsedFraction)
    /\ pc' = "projected"
    /\ UNCHANGED <<currentRevenueCents, baselineFractionAtNow,
                   rollingAverageRevenueCents, elapsedFraction, isClosed>>
    /\ UNCHANGED <<baseVars, ponrVars, callVars, buildVars>>

\* buildRealtimeSnapshot on a day whose operating hours are closed
BuildClosedSnapshot ==
    /\ pc = "start"
    /\ isClosed
    /\ projection' = closedProjection
    /\ pc' = "closed"
    /\ UNCHANGED <<currentRevenueCents, baselineFractionAtNow,
                   rollingAverageRevenueCents, elapsedFraction, isClosed>>
    /\ UNCHANGED <<baseVars, ponrVars, callVars, buildVars>>

NextProjection == ComputeProjection \/ BuildClosedSnapshot

SpecProjection == InitProjection /\ [][NextProjection]_vars

----------------------------------------------------------------------------
(* Properties of the projection engine *)

\* C2: whenever rawProjectedTotalCents and rollingAverageRevenueCents are
\* non-negative integers, rampedProjectedTotalCents lies between the smaller
\* and the larger of the two, inclusive.
C2_RampedBetween ==
    (pc = "projected" /\ projection.rawProjectedTotalCents >= 0
                      /\ rollingAverageRevenueCents >= 0)
    => /\ Min(projection.rawProjectedTotalCents, rollingAverageRevenueCents)
            <= projection.rampedProjectedTotalCents
       /\ projection.rampedProjectedTotalCents
            <= Max(projection.rawProjectedTotalCents, rollingAverageRevenueCents)

\* a blend strictly inside the interval, with full weight not yet reached
C2_Witness ==
    /\ pc = "projected"
    /\ RLt(projection.rampWeight, RInt(1))
    /\ projection.rawProjectedTotalCents > projection.rampedProjectedTotalCents
    /\ projection.rampedProjectedTotalCents > rollingAverageRevenueCents

\* C3: every ProjectionMetrics value a snapshot carries has rampWeight in
\* [0.1, 1], the closed-day snapshot included.
C3_RampWeightRange ==
    pc \in {"projected", "closed"}
    => /\ RLe(Rat(1, 10), projection.rampWeight)
       /\ RLe(projection.rampWeight, RInt(1))

\* C4: with baseline fraction 0 the raw projection is the rolling average,
\* whatever the current revenue.
C4_ZeroBaselineFallsBack ==
    (pc = "projected" /\ baselineFractionAtNow = RInt(0))
    => projection.rawProjectedTotalCents = rollingAverageRevenueCents

C4_Witness ==
    /\ pc = "projected"
    /\ baselineFractionAtNow = RInt(0)
    /\ currentRevenueCents = 2999
    /\ rollingAverageRevenueCents = 40
    /\ projection.rawProjectedTotalCents = 40

\* C5: for a baseline fraction b > 0, with g = max(b, 0.03):
\* raw = round(current / g), rampWeight = clamp(g * 1.65, 0.1, 1) and
\* ramped = round(raw * rampWeight + rollingAverage * (1 - rampWeight));
\* current = 100000, b = 0.5, rollingAverage = 200000 gives rampWeight 0.825
\* and raw = ramped = 200000.
C5_ProjectionFormula ==
    (pc = "projected" /\ baselineFractionAtNow.n > 0)
    => LET b == baselineFractionAtNow
           g == IF b.n * 100 < 3 * b.d THEN [n |-> 3, d |-> 100] ELSE b
           raw == (2 * currentRevenueCents * g.d + g.n) \div (2 * g.n)
           w165 == [n |-> g.n * 165, d |-> g.d * 100]
           w == IF w165.n * 10 < w165.d THEN [n |-> 1, d |-> 10]
                ELSE IF w165.n > w165.d THEN [n |-> 1, d |-> 1]
                ELSE w165
           blendN == raw * w.n + rollingAverageRevenueCents * (w.d - w.n)
           ramped == (2 * blendN + w.d) \div (2 * w.d)
       IN  /\ projection.rawProjectedTotalCents = raw
           /\ projection.rampWeight.n * w.d = w.n * projection.rampWeight.d
           /\ projection.rampedProjectedTotalCents = ramped
           /\ (currentRevenueCents = 100000 /\ b = Rat(1, 2)
                 /\ rollingAverageRevenueCents = 200000)
              => /\ projection.rampWeight = [n |-> 33, d |-> 40]
                 /\ projection.rawProjectedTotalCents = 200000
                 /\ projection.rampedProjectedTotalCents = 200000

\* the scenario of the claim, and a baseline below the 0.03 guard
C5_Witness ==
    /\ pc = "projected"
    /\ currentRevenueCents = 100000
    /\ baselineFractionAtNow = Rat(1, 2)
    /\ rollingAverageRevenueCents = 200000
    /\ projection.rampedProjectedTotalCents = 200000

----------------------------------------------------------------------------
(* Baseline model: buildBaselineFractions on enumerated comparable nights, *)
(* then normalizeFractions to the current night's bucket count.            *)

MaxNights == 2

MaxSeriesLen == 2

MaxBucketCount == 3

\* per-bucket revenue of a comparable night: sums of max(0, amountCents)
BucketCents == {0, 1, 3}

SeqsUpTo(S, k) == UNION { [1..m -> S] : m \in 0..k }

InitBaseline ==
    /\ pc = "start"
    /\ comparableBucketSeries \in SeqsUpTo(SeqsUpTo(BucketCents, MaxSeriesLen), MaxNights)
    /\ bucketCount \in 1..MaxBucketCount
    /\ baselineFractions = <<>>
    /\ normalizedFractions = <<>>
    /\ currentRevenueCents = 0
    /\ baselineFractionAtNow = RInt(0)
    /\ rollingAverageRevenueCents = 0
    /\ elapsedFraction = RInt(0)
    /\ isClosed = FALSE
    /\ projection = NULL
    /\ ponrIn = NULL
    /\ ponrOut = NULL
    /\ CallsIdle
    /\ BuildIdle

BuildBaseline ==
    /\ pc = "start"
    /\ baselineFractions' = buildBaselineFractions(comparableBucketSeries)
    /\ pc' = "baseline"
    /\ UNCHANGED <<comparableBucketSeries, bucketCount, normalizedFractions>>
    /\ UNCHANGED <<projVars, ponrVars, callVars, buildVars>>

Normalize ==
    /\ pc = "baseline"
    /\ normalizedFractions' = normalizeFractions(baselineFractions, bucketCount)
    /\ pc' = "normalized"
    /\ UNCHANGED <<comparableBucketSeries, bucketCount, baselineFractions>>
    /\ UNCHANGED <<projVars, ponrVars, callVars, buildVars>>

NextBaseline == BuildBaseline \/ Normalize

SpecBaseline == InitBaseline /\ [][NextBaseline]_vars

NonDecreasingUnit(fractions) ==
    /\ \A i \in 1..Len(fractions) :
          RLe(RInt(0), fractions[i]) /\ RLe(fractions[i], RInt(1))
    /\ \A i \in 1..(Len(fractions) - 1) : RLe(fractions[i], fractions[i + 1])

\* C1: for comparable series with non-negative integer entries, the sequence
\* buildBaselineFractions returns, and the sequence normalizeFractions derives
\* from it for any bucket count >= 1, is non-decreasing and lies in [0,1].
C1_BaselineMonotoneBounded ==
    /\ pc \in {"baseline", "normalized"} => NonDecreasingUnit(baselineFractions)
    /\ pc = "normalized" =>
          /\ NonDecreasingUnit(normalizedFractions)
          /\ Len(normalizedFractions) = bucketCount

\* a baseline that rises strictly and is tail-extended to more buckets
C1_Witness ==
    /\ pc = "normalized"
    /\ Len(comparableBucketSeries) >= 2
    /\ Len(baselineFractions) = 2
    /\ RLt(RInt(0), baselineFractions[1])
    /\ RLt(baselineFractions[1], baselineFractions[2])
    /\ Len(normalizedFractions) = 3
    /\ RLt(normalizedFractions[2], normalizedFractions[3])

----------------------------------------------------------------------------
(* Point of no return: the realtime solver and the sample-mode builder on  *)
(* enumerated arguments.  The reporting window starts at instant 0 and has *)
(* NumBuckets buckets; the arguments are derived as buildRealtimeSnapshot  *)
(* derives them (effectiveNow inside the window, completedBucketCount from *)
(* the elapsed time, nothing booked in buckets that have not started).     *)

NumBuckets == 3

HALF_BUCKET == BUCKET_MILLISECONDS \div 2

NowInputs == { k * HALF_BUCKET : k \in 0..(2 * NumBuckets) }

completedBucketCountAt(nowMs) ==
    clampInt(Ceil(Rat(Max(0, nowMs), BUCKET_MILLISECONDS)), 0, NumBuckets)

\* shift windows: opening before, at or after the start of the reporting
\* window; closing inside it or at its end; and one that closes at the very
\* instant the reporting window starts
ShiftWindows ==
    ({-HALF_BUCKET, 0, HALF_BUCKET} \X {3 * HALF_BUCKET, NumBuckets * BUCKET_MILLISECONDS})
        \cup {<<-HALF_BUCKET, 0>>}

RevenueSeries(completed) ==
    { r \in [1..NumBuckets -> {0, 400}] : \A i \in 1..NumBuckets : i > completed => r[i] = 0 }

LaborSeries(completed) ==
    { [i \in 1..NumBuckets |-> IF i <= completed THEN l ELSE 0] : l \in {100, 500} }

BaselineInputs ==
    { [i \in 1..NumBuckets |-> Rat(i, NumBuckets)],
      [i \in 1..NumBuckets |-> RInt(0)],
      [i \in 1..NumBuckets |-> RInt(1)] }

\* (closedDays, dayKey): the business day is the last open day of the week
FinalShiftDays == { <<{}, "sunday">>, <<{"saturday", "sunday"}, "friday">> }

\* the business day is not the last open day, or no day is open
OtherDays ==
    { <<{}, "saturday">>, <<{"sunday"}, "sunday">>, <<{"sunday"}, "monday">>,
      <<{"monday", "tuesday", "wednesday", "thursday", "friday", "saturday",
         "sunday"}, "sunday">> }

\* week-to-date totals before tonight's service: NULL when the week fetch failed
PriorWeekRevenue == { NULL, Some(1000), Some(3200) }

PriorWeekWages == { NULL, Some(200) }

\* weeklyRevenueToDateCents / weeklyWagesToDateCents: the earlier days of the
\* week plus what tonight's series already hold
weekToDate(prior, series) ==
    IF prior = NULL THEN NULL ELSE Some(prior[1] + SumTo(series, Len(series)))

PonrInput(mode, day, nowMs, shift, revenue, labor, openBills, baseline, projected, weekRevenuePrior, weekWagesPrior, target, averageRate, spendRate, samplePercent) ==
    [ mode |-> mode,
      closedDays |-> day[1],
      dayKey |-> day[2],
      windowStartMs |-> 0,
      effectiveNowMs |-> nowMs,
      shiftStartMs |-> shift[1],
      shiftEndMs |-> shift[2],
      completedBucketCount |-> completedBucketCountAt(nowMs),
      closedRevenueByBucket |-> revenue,
      laborByBucket |-> labor,
      openBillsCents |-> IF completedBucketCountAt(nowMs) > 0 THEN openBills ELSE 0,
      baselineFractions |-> baseline,
      projectedRevenueCents |-> projected,
      weeklyRevenueToDateCents |-> weekToDate(weekRevenuePrior, revenue),
      weeklyWagesToDateCents |-> weekToDate(weekWagesPrior, labor),
      targetWagePercent |-> target,
      averageHourlyRateCents |-> averageRate,
      currentHourlySpendRateCents |-> spendRate,
      samplePercentAtNow |-> samplePercent ]

RampBaseline == [i \in 1..NumBuckets |-> Rat(i, NumBuckets)]

ZeroSeries == [i \in 1..NumBuckets |-> 0]

\* the business day is the last open day: every argument of the solver varies
FinalShiftInput(in) ==
    \E shift \in ShiftWindows, nowMs \in NowInputs, openBills \in {0, 300},
       baseline \in BaselineInputs, projected \in {0, 1200},
       weekRevenuePrior \in PriorWeekRevenue, weekWagesPrior \in PriorWeekWages,
       target \in {RInt(25), RInt(40)}, spendRate \in {800, 2400} :
        \E revenue \in RevenueSeries(completedBucketCountAt(nowMs)),
           labor \in LaborSeries(completedBucketCountAt(nowMs)) :
            in = PonrInput("realtime", <<{}, "sunday">>, nowMs, shift, revenue, labor,
                           openBills, baseline, projected, weekRevenuePrior,
                           weekWagesPrior, target, 800, spendRate, NULL)

\* any operating-hours configuration and business day
AnyDayInput(in) ==
    \E day \in OtherDays \cup FinalShiftDays, shift \in ShiftWindows,
       nowMs \in NowInputs, weekRevenuePrior \in PriorWeekRevenue,
       weekWagesPrior \in PriorWeekWages :
        \E revenue \in RevenueSeries(completedBucketCountAt(nowMs)),
           labor \in LaborSeries(completedBucketCountAt(nowMs)) :
            in = PonrInput("realtime", day, nowMs, shift, revenue, labor, 300,
                           RampBaseline, 1200, weekRevenuePrior, weekWagesPrior,
                           RInt(25), 800, 800, NULL)

\* a large venue at the opening instant of its final shift: week-to-date
\* totals in the tens of thousands of dollars, one person about to be on the
\* floor at a rate within a cent of the configured average
LargeVenueRevenue == { 9999000 + k : k \in 0..3 }

LargeVenueWages == { 2497498 + k : k \in 0..3 }

LargeVenueInput(in) ==
    \E weekRevenue \in LargeVenueRevenue, weekWages \in LargeVenueWages,
       spendRate \in {3333, 3334, 6666}, projected \in {1500, 1503} :
        in = PonrInput("realtime", <<{}, "sunday">>, 0,
                       <<0, 3 * BUCKET_MILLISECONDS>>, ZeroSeries, ZeroSeries, 0,
                       RampBaseline, projected, Some(weekRevenue), Some(weekWages),
                       RInt(25), 3333, spendRate, NULL)

SamplePercents == { NULL, Some(RInt(20)), Some(Rat(119, 5)), Some(Rat(124, 5)),
                    Some(RInt(25)), Some(Rat(51, 2)), Some(RInt(40)) }

SampleInput(in) ==
    \E day \in OtherDays \cup FinalShiftDays, nowMs \in NowInputs,
       samplePercent \in SamplePercents :
        in = PonrInput("sample", day, nowMs, <<0, NumBuckets * BUCKET_MILLISECONDS>>,
                       ZeroSeries, ZeroSeries, 0, RampBaseline, 1200, Some(1000),
                       Some(200), RInt(25), 800, 800, samplePercent)

InitPonr ==
    /\ pc = "start"
    /\ \/ FinalShiftInput(ponrIn)
       \/ AnyDayInput(ponrIn)
       \/ LargeVenueInput(ponrIn)
       \/ SampleInput(ponrIn)
    /\ ponrOut = NULL
    /\ currentRevenueCents = 0
    /\ baselineFractionAtNow = RInt(0)
    /\ rollingAverageRevenueCents = 0
    /\ elapsedFraction = RInt(0)
    /\ isClosed = FALSE
    /\ projection = NULL
    /\ comparableBucketSeries = <<>>
    /\ bucketCount = 0
    /\ baselineFractions = <<>>
    /\ normalizedFractions = <<>>
    /\ CallsIdle
    /\ BuildIdle

\* dataSourceMode "realtime": the snapshot carries the solver's result
BuildPointOfNoReturn ==
    /\ pc = "start"
    /\ ponrIn.mode = "realtime"
    /\ ponrOut' = buildPointOfNoReturnSnapshot(ponrIn)
    /\ pc' = "ponr"
    /\ UNCHANGED <<ponrIn, projVars, baseVars, callVars, buildVars>>

\* dataSourceMode "sample": the snapshot carries the sample builder's result
BuildSamplePointOfNoReturn ==
    /\ pc = "start"
    /\ ponrIn.mode = "sample"
    /\ ponrOut' = buildSamplePointOfNoReturn(ponrIn)
    /\ pc' = "ponr"
    /\ UNCHANGED <<ponrIn, projVars, baseVars, callVars, buildVars>>

NextPonr == BuildPointOfNoReturn \/ BuildSamplePointOfNoReturn

SpecPonr == InitPonr /\ [][NextPonr]_vars

----------------------------------------------------------------------------
(* Point of no return: properties *)

SolverDone == pc = "ponr" /\ ponrIn.mode = "realtime"

SampleDone == pc = "ponr" /\ ponrIn.mode = "sample"

DayIndex(dayKey) == CHOOSE i \in 1..Len(DAY_KEYS) : DAY_KEYS[i] = dayKey

NoOpenDay == \A i \in 1..Len(DAY_KEYS) : DAY_KEYS[i] \in ponrIn.closedDays

TodayIsLastOpenDay ==
    /\ ponrIn.dayKey \notin ponrIn.closedDays
    /\ \A i \in 1..Len(DAY_KEYS) :
          i > DayIndex(ponrIn.dayKey) => DAY_KEYS[i] \in ponrIn.closedDays

WithinShiftWindow ==
    ponrIn.shiftStartMs <= ponrIn.effectiveNowMs /\ ponrIn.effectiveNowMs <= ponrIn.shiftEndMs

WeeklyTotalMissing ==
    ponrIn.weeklyRevenueToDateCents = NULL \/ ponrIn.weeklyWagesToDateCents = NULL

NoPointReported == ponrOut.pointTimeMs = NULL /\ ponrOut.minutesFromNow = NULL

\* the final shift with both weekly totals present
FinalShiftAvailable ==
    SolverDone /\ TodayIsLastOpenDay /\ WithinShiftWindow /\ ~WeeklyTotalMissing

\* the solver gets as far as sampling: the shift covers at least one bucket of
\* the reporting window and revenue is expected by its close
ReachesSampling ==
    /\ ponrContext(ponrIn).shiftEndBucketExclusive > ponrContext(ponrIn).shiftStartBucketIndex
    /\ expectedShiftCloseOf(ponrIn) > 0

ValidPoints == validPointsOf(pnrSamplePoints(ponrIn))

PercentAt(points, i) == points[i].projectedWeekWagePercent[1]

Straddles(points, i) ==
    /\ RLt(PercentAt(points, i - 1), ponrIn.targetWagePercent)
    /\ RLe(ponrIn.targetWagePercent, PercentAt(points, i))

HasStraddlingPair(points) == \E i \in 2..Len(points) : Straddles(points, i)

\* index of (t1, p1) in the first consecutive pair with p0 < threshold <= p1
FirstPair(points) ==
    CHOOSE i \in 2..Len(points) :
        Straddles(points, i) /\ \A j \in 2..(i - 1) : ~Straddles(points, j)

\* round(t0 + (t1 - t0) * clamp((threshold - p0) / (p1 - p0), 0, 1))
InterpolatedTimeMs(points, i) ==
    LET t0 == points[i - 1].timeMs
        t1 == points[i].timeMs
        share == RDiv(RSub(ponrIn.targetWagePercent, PercentAt(points, i - 1)),
                      RSub(PercentAt(points, i), PercentAt(points, i - 1)))
        clamped == IF RLt(share, RInt(0)) THEN RInt(0)
                   ELSE IF RLt(RInt(1), share) THEN RInt(1) ELSE share
    IN  Round(RAdd(RInt(t0), RMul(RInt(t1 - t0), clamped)))

\* C6 as stated: on the final shift, whenever two consecutive valid sample
\* points (t0, p0), (t1, p1) are the first pair with p0 < threshold <= p1, the
\* reported crossing time is round(t0 + (t1 - t0) * clamp((threshold - p0) /
\* (p1 - p0), 0, 1)).
C6_FirstPairInterpolated ==
    (FinalShiftAvailable /\ ReachesSampling)
        => LET points == ValidPoints
           IN  HasStraddlingPair(points)
                  => ponrOut.pointTimeMs =
                        Some(InterpolatedTimeMs(points, FirstPair(points)))

\* C6 amended: the interpolated time is reported when no earlier valid sample
\* is already at or above the threshold and p1 - p0 is at least 0.00001; when
\* p1 - p0 is below 0.00001 the crossing is t1 itself, and when the very first
\* valid sample is at or above the threshold the crossing is that sample's
\* time.  For p0 = 20, p1 = 30 and threshold 25 this is t0 + 0.5 * (t1 - t0).
C6_InterpolatedUnlessFlatOrEarlier ==
    (FinalShiftAvailable /\ ReachesSampling)
        => LET points == ValidPoints
               i == FirstPair(points)
           IN  HasStraddlingPair(points)
                  => ponrOut.pointTimeMs =
                        IF RLe(ponrIn.targetWagePercent, PercentAt(points, 1))
                        THEN Some(points[1].timeMs)
                        ELSE IF RLt(RSub(PercentAt(points, i), PercentAt(points, i - 1)),
                                    Rat(1, 100000))
                        THEN Some(points[i].timeMs)
                        ELSE Some(InterpolatedTimeMs(points, i))

C6_Witness ==
    /\ FinalShiftAvailable /\ ReachesSampling
    /\ ponrIn.targetWagePercent = RInt(25)
    /\ LET points == ValidPoints
           i == FirstPair(points)
       IN  /\ HasStraddlingPair(points)
           /\ PercentAt(points, i - 1) = RInt(20)
           /\ PercentAt(points, i) = RInt(30)
           /\ points[i].timeMs > points[i - 1].timeMs
           /\ 2 * ponrOut.pointTimeMs[1] = points[i - 1].timeMs + points[i].timeMs

\* C7 as stated: for every operating-hours configuration, when the business
\* day is not the last open weekday the result is not_last_shift with no
\* point time and no minutes, for the realtime solver and the sample builder.
C7_NotLastDayIsNotLastShift ==
    (pc = "ponr" /\ ~TodayIsLastOpenDay)
        => (ponrOut.status = "not_last_shift" /\ NoPointReported)

\* C7 amended: for every configuration with at least one open weekday, a
\* business day that is not the last open weekday gives not_last_shift with
\* no point time and no minutes, in both builders; with every weekday closed
\* the result is unavailable instead.
C7_NotLastDayUnlessAllClosed ==
    (pc = "ponr" /\ ~TodayIsLastOpenDay)
        => /\ NoPointReported
           /\ ponrOut.status = IF NoOpenDay THEN "unavailable" ELSE "not_last_shift"

C7_Witness ==
    /\ SampleDone /\ ~TodayIsLastOpenDay /\ ~NoOpenDay
    /\ ponrIn.samplePercentAtNow = Some(RInt(40))
    /\ ponrOut.status = "not_last_shift"

\* C8 as stated: whenever a weekly total is null the solver returns
\* unavailable with point time, minutes and percent-at-now all null.
C8_MissingWeeklyIsUnavailable ==
    (SolverDone /\ WeeklyTotalMissing)
        => /\ ponrOut.status = "unavailable"
           /\ NoPointReported
           /\ ponrOut.projectedWeekWagePercentAtNow = NULL

\* C8 amended: whenever a weekly total is null the solver never returns a
\* computed status and point time, minutes and percent-at-now are all null;
\* the status is unavailable when today is the last open weekday and now is
\* inside its shift window (or no weekday is open), and not_last_shift
\* otherwise, because the day and window guards run first.
C8_MissingWeeklyNeverComputed ==
    (SolverDone /\ WeeklyTotalMissing)
        => /\ NoPointReported
           /\ ponrOut.projectedWeekWagePercentAtNow = NULL
           /\ ponrOut.status =
                 IF NoOpenDay \/ (TodayIsLastOpenDay /\ WithinShiftWindow)
                 THEN "unavailable" ELSE "not_last_shift"

C8_Witness ==
    /\ SolverDone /\ WeeklyTotalMissing
    /\ TodayIsLastOpenDay /\ WithinShiftWindow
    /\ ponrIn.weeklyWagesToDateCents # NULL
    /\ ponrOut.status = "unavailable"

\* C9: on the last open weekday a crossing is computed only if effectiveNow
\* lies in [shiftStart, shiftEnd]; before shiftStart or after shiftEnd the
\* status is not_last_shift with no point time.
C9_OutsideWindowNotLastShift ==
    /\ (SolverDone /\ TodayIsLastOpenDay /\ ~WithinShiftWindow)
          => (ponrOut.status = "not_last_shift" /\ NoPointReported)
    /\ (SolverDone /\ ponrOut.status \in {"safe_all_shift", "upcoming", "passed"})
          => (TodayIsLastOpenDay /\ WithinShiftWindow)

C9_Witness ==
    /\ SolverDone /\ TodayIsLastOpenDay
    /\ ponrIn.effectiveNowMs > ponrIn.shiftEndMs
    /\ ~WeeklyTotalMissing
    /\ ponrOut.status = "not_last_shift"

NoPointAtOrAboveThreshold(points) ==
    \A i \in 1..Len(points) : RLt(PercentAt(points, i), ponrIn.targetWagePercent)

SafeIffNoCrossing ==
    /\ ponrOut.status = "safe_all_shift" <=> NoPointAtOrAboveThreshold(ValidPoints)
    /\ ponrOut.status = "safe_all_shift" => NoPointReported
    /\ ponrOut.status # "safe_all_shift" => ponrOut.status \in {"upcoming", "passed"}

\* C10 as stated: on the final shift with all inputs available the status is
\* safe_all_shift exactly when no valid sample point is at or above the
\* threshold, then with no point time and no minutes; otherwise the status
\* is upcoming or passed.
C10_SafeExactlyWhenNoCrossing ==
    FinalShiftAvailable
        => SafeIffNoCrossing

\* C10 amended: the same, provided the shift covers at least one bucket of
\* the reporting window and the expected shift-close revenue is positive;
\* when either fails the solver takes no samples and the status is
\* unavailable with no point time and no minutes.
C10_SafeExactlyWhenSampledNoCrossing ==
    FinalShiftAvailable
        => IF ReachesSampling THEN SafeIffNoCrossing
           ELSE ponrOut.status = "unavailable" /\ NoPointReported

C10_Witness ==
    /\ FinalShiftAvailable /\ ReachesSampling
    /\ Len(ValidPoints) >= 3
    /\ NoPointAtOrAboveThreshold(ValidPoints)
    /\ ponrOut.status = "safe_all_shift"

----------------------------------------------------------------------------
\* the solver got past its guards and built the expected curve
CurveBuilt ==
    /\ FinalShiftAvailable
    /\ ponrContext(ponrIn).shiftEndBucketExclusive > ponrContext(ponrIn).shiftStartBucketIndex

NonDecreasing(fractions) ==
    \A i \in 1..(Len(fractions) - 1) : RLe(fractions[i], fractions[i + 1])

CurrentBucketInShift ==
    /\ ponrContext(ponrIn).shiftStartBucketIndex <= ponrContext(ponrIn).currentBucketIndex
    /\ ponrContext(ponrIn).currentBucketIndex < ponrContext(ponrIn).shiftEndBucketExclusive

AlignedAtCurrentBucket ==
    alignedExpectedShiftCumulativeByBucket(ponrContext(ponrIn))
        [ponrContext(ponrIn).currentBucketIndex + 1]

\* C24: for non-decreasing baseline fractions and a current bucket index
\* inside [shiftStartBucketIndex, shiftEndBucketExclusive), the aligned
\* expected shift-cumulative-revenue curve equals shiftAdjustedNow at the
\* current bucket index.
C24_AlignedCurveThroughObservedPoint ==
    (CurveBuilt /\ NonDecreasing(ponrIn.baselineFractions) /\ CurrentBucketInShift)
        => AlignedAtCurrentBucket = ponrContext(ponrIn).shiftAdjustedNow

\* the current bucket is past the first bucket of the shift, revenue was
\* observed, and the raw curve is off the observed point
C24_Witness ==
    /\ CurveBuilt /\ NonDecreasing(ponrIn.baselineFractions) /\ CurrentBucketInShift
    /\ ponrContext(ponrIn).currentBucketIndex > ponrContext(ponrIn).shiftStartBucketIndex
    /\ ponrContext(ponrIn).shiftAdjustedNow > 0
    /\ ponrContext(ponrIn).shiftAlignment # 0
    /\ AlignedAtCurrentBucket = ponrContext(ponrIn).shiftAdjustedNow

PointReported == SolverDone /\ ponrOut.status \in {"upcoming", "passed"}

\* a valid sample at or after the reported point time that is below the target
DipsAfterPoint(point) ==
    /\ point.timeMs >= ponrOut.pointTimeMs[1]
    /\ RLt(point.projectedWeekWagePercent[1], ponrIn.targetWagePercent)

\* C23: whenever the status is upcoming or passed, every sample point of the
\* shift at or after the reported point time has a projected weekly wage
\* percent at or above the threshold.
C23_StaysAboveAfterPoint ==
    PointReported
        => \A i \in 1..Len(ValidPoints) : ~DipsAfterPoint(ValidPoints[i])

SnapshotBuilt == pc = "ponr"

\* C27: in every point-of-no-return snapshot, realtime or sample, the point
\* time and minutesFromNow are non-null exactly when the status is upcoming
\* or passed; the status is passed exactly when the point time is <= now,
\* then with minutesFromNow <= 0, and upcoming exactly when it is > now, then
\* with minutesFromNow >= 0; and the realtime solver's point time lies within
\* [shiftStart, shiftEnd].
C27_PointPresentAndOrdered ==
    SnapshotBuilt
        => /\ ponrOut.pointTimeMs # NULL <=> ponrOut.status \in {"upcoming", "passed"}
           /\ ponrOut.minutesFromNow # NULL <=> ponrOut.status \in {"upcoming", "passed"}
           /\ ponrOut.status \in {"upcoming", "passed"}
                 => /\ ponrOut.status = "passed"
                          <=> ponrOut.pointTimeMs[1] <= ponrIn.effectiveNowMs
                    /\ ponrOut.status = "upcoming"
                          <=> ponrOut.pointTimeMs[1] > ponrIn.effectiveNowMs
                    /\ ponrOut.status = "passed" => ponrOut.minutesFromNow[1] <= 0
                    /\ ponrOut.status = "upcoming" => ponrOut.minutesFromNow[1] >= 0
                    /\ ponrIn.mode = "realtime"
                          => /\ ponrIn.shiftStartMs <= ponrOut.pointTimeMs[1]
                             /\ ponrOut.pointTimeMs[1] <= ponrIn.shiftEndMs

\* the realtime solver reports a crossing at effectiveNow itself, inside the
\* shift, as passed
C27_Witness ==
    /\ SolverDone
    /\ ponrOut.status = "passed"
    /\ ponrOut.pointTimeMs = Some(ponrIn.effectiveNowMs)
    /\ ponrOut.minutesFromNow = Some(0)
    /\ ponrIn.shiftStartMs < ponrIn.effectiveNowMs
    /\ ponrIn.effectiveNowMs < ponrIn.shiftEndMs

StatusComputed ==
    SolverDone /\ ponrOut.status \in {"safe_all_shift", "upcoming", "passed"}

\* the sample pushed at effectiveNow: observed shift revenue and labor so far
NowSample ==
    LET c == ponrContext(ponrIn)
    IN  pnrPoint(ponrIn, c, expectedShiftCloseOf(ponrIn), ponrIn.effectiveNowMs,
                 c.shiftAdjustedNow, c.shiftAdjustedNow, c.shiftLaborNow)

\* C28: whenever the solver computes a status, projectedWeekWagePercentAtNow
\* is the projected weekly wage percent of the sample built at effectiveNow
\* from shiftAdjustedNow and shiftLaborNow, for every effectiveNow in
\* [shiftStart, shiftEnd], shiftStart and the bucket boundaries included.
C28_AtNowIsNowSample ==
    StatusComputed
        => ponrOut.projectedWeekWagePercentAtNow = NowSample.projectedWeekWagePercent

----------------------------------------------------------------------------
(* Helper-call model: one exported helper is called once on enumerated     *)
(* arguments.  callIn.fn names the helper, callOut is what it returned.    *)

\* variant: one point per revenue entry instead of one per label
computeWageSeriesPerRevenueEntry(labels, cumulativeRevenueCents, cumulativeLaborCents, targetWagePercent, historicalWagePercentByBucket) ==
    [ i \in 1..Len(cumulativeRevenueCents) |->
        [ label |-> At0(labels, i - 1, 0),
          currentPercent |-> toPercent(At0(cumulativeLaborCents, i - 1, 0),
                                       cumulativeRevenueCents[i]),
          targetPercent |-> targetWagePercent,
          historicalPercent |-> At0(historicalWagePercentByBucket, i - 1,
                                    targetWagePercent) ] ]

\* labels.map of computeWageSeries: one WagePoint per label
computeWageSeries(labels, cumulativeRevenueCents, cumulativeLaborCents, targetWagePercent, historicalWagePercentByBucket) ==
    [ i \in 1..Len(labels) |->
        [ label |-> labels[i],
          currentPercent |-> toPercent(At0(cumulativeLaborCents, i - 1, 0),
                                       At0(cumulativeRevenueCents, i - 1, 0)),
          targetPercent |-> targetWagePercent,
          historicalPercent |-> At0(historicalWagePercentByBucket, i - 1,
                                    targetWagePercent) ] ]

MaxCallLen == 3

\* cents of one bucket of a revenue or labor series
SeriesCents == {0, 500, 1200}

LaborCents == {0, 300}

\* a bucket label is modelled by the bucket's start, minutes after the window opens
bucketLabels(count) == [i \in 1..count |-> (i - 1) * BUCKET_MINUTES]

PercentNumerators == {0, 250, 1200}

PercentDenominators == {-100, 0, 100, 300}

CumulativeCall(in) ==
    \E values \in SeqsUpTo(SeriesCents, MaxCallLen) :
        in = [fn |-> "cumulative", values |-> values]

ToPercentCall(in) ==
    \E numerator \in PercentNumerators, denominator \in PercentDenominators :
        in = [fn |-> "toPercent", numerator |-> numerator, denominator |-> denominator]

WageSeriesCall(in) ==
    \E count \in 1..MaxCallLen, revenue \in SeqsUpTo(SeriesCents, MaxCallLen), labor \in SeqsUpTo(LaborCents, MaxCallLen), historical \in {<<>>, <<RInt(30), RInt(31)>>} :
        in = [fn |-> "computeWageSeries", labels |-> bucketLabels(count),
              cumulativeRevenueCents |-> cumulative(revenue),
              cumulativeLaborCents |-> cumulative(labor),
              targetWagePercent |-> RInt(25),
              historicalWagePercentByBucket |-> historical]

\* buckets after the first k payments of the loop
RECURSIVE bucketizeFrom(_, _, _, _, _)
bucketizeFrom(payments, k, windowStartMs, effectiveNowMs, bucketCount_) ==
    IF k = 0 THEN [i \in 1..bucketCount_ |-> 0]
    ELSE LET buckets == bucketizeFrom(payments, k - 1, windowStartMs, effectiveNowMs, bucketCount_)
             timestamp == payments[k].createdAt
             index == (timestamp - windowStartMs) \div BUCKET_MILLISECONDS
         IN  IF timestamp < windowStartMs \/ timestamp >= effectiveNowMs THEN buckets
             ELSE IF index < 0 \/ index >= bucketCount_ THEN buckets
             ELSE [buckets EXCEPT ![index + 1] = @ + Max(0, payments[k].amountCents)]

\* variant: the upper limit of the window is not applied
RECURSIVE bucketizeFromUnbounded(_, _, _, _, _)
bucketizeFromUnbounded(payments, k, windowStartMs, effectiveNowMs, bucketCount_) ==
    IF k = 0 THEN [i \in 1..bucketCount_ |-> 0]
    ELSE LET buckets == bucketizeFromUnbounded(payments, k - 1, windowStartMs, effectiveNowMs, bucketCount_)
             timestamp == payments[k].createdAt
             index == (timestamp - windowStartMs) \div BUCKET_MILLISECONDS
         IN  IF timestamp < windowStartMs THEN buckets
             ELSE IF index < 0 \/ index >= bucketCount_ THEN buckets
             ELSE [buckets EXCEPT ![index + 1] = @ + Max(0, payments[k].amountCents)]

bucketizeRevenueUnbounded(payments, windowStartMs, effectiveNowMs, bucketCount_) ==
    bucketizeFromUnbounded(payments, Len(payments), windowStartMs, effectiveNowMs, bucketCount_)

bucketizeRevenue(payments, windowStartMs, effectiveNowMs, bucketCount_) ==
    bucketizeFrom(payments, Len(payments), windowStartMs, effectiveNowMs, bucketCount_)

\* employeeRates is a function from the employee ids that have a rate;
\* rates are dollars per hour
resolveTimesheetRate(timesheet, fallbackRate, employeeRates) ==
    IF timesheet.hourlyRate # NULL THEN timesheet.hourlyRate[1]
    ELSE IF timesheet.employeeId # NULL
         THEN IF timesheet.employeeId[1] \in DOMAIN employeeRates
              THEN employeeRates[timesheet.employeeId[1]]
              ELSE fallbackRate
         ELSE fallbackRate

\* Math.round(hours * rate * 100) of a stretch of milliseconds
roundedCostCents(milliseconds, rate) ==
    Round(RMul(RMul(Rat(milliseconds, MS_PER_HOUR), rate), RInt(100)))

computeTimesheetCostCents(timesheet, windowStartMs, windowEndMs, fallbackRate, employeeRates) ==
    LET startAt == timesheet.startAt
        endAt == IF timesheet.endAt # NULL THEN timesheet.endAt[1] ELSE windowEndMs
        startMs == Max(startAt, windowStartMs)
        endMs == Min(endAt, windowEndMs)
        rate == resolveTimesheetRate(timesheet, fallbackRate, employeeRates)
    IN  IF endAt <= startAt THEN 0
        ELSE IF endMs <= startMs THEN 0
        ELSE IF RLe(rate, RInt(0)) THEN 0
        ELSE roundedCostCents(endMs - startMs, rate)

\* the while loop of distributeLabor from a cursor
RECURSIVE distributeFrom(_, _, _, _, _)
distributeFrom(bucketLabor, cursor, endMs, windowStartMs, rate) ==
    IF cursor >= endMs THEN bucketLabor
    ELSE LET bucketIndex == (cursor - windowStartMs) \div BUCKET_MILLISECONDS
             bucketEnd == windowStartMs + (bucketIndex + 1) * BUCKET_MILLISECONDS
             segmentEnd == Min(endMs, bucketEnd)
         IN  IF bucketIndex < 0 \/ bucketIndex >= Len(bucketLabor) THEN bucketLabor
             ELSE distributeFrom(
                    [bucketLabor EXCEPT ![bucketIndex + 1] = @ + roundedCostCents(segmentEnd - cursor, rate)],
                    segmentEnd, endMs, windowStartMs, rate)

\* variant: the whole clipped interval is booked in the bucket it starts in
distributeLaborToFirstBucket(bucketLabor, windowStartMs, effectiveNowMs, timesheet, fallbackRate, employeeRates) ==
    LET startAt == timesheet.startAt
        endAt == IF timesheet.endAt # NULL THEN timesheet.endAt[1] ELSE effectiveNowMs
        startMs == Max(startAt, windowStartMs)
        endMs == Min(endAt, effectiveNowMs)
        rate == resolveTimesheetRate(timesheet, fallbackRate, employeeRates)
        bucketIndex == (startMs - windowStartMs) \div BUCKET_MILLISECONDS
    IN  IF endAt <= startAt \/ endMs <= startMs \/ RLe(rate, RInt(0)) THEN bucketLabor
        ELSE IF bucketIndex < 0 \/ bucketIndex >= Len(bucketLabor) THEN bucketLabor
        ELSE [bucketLabor EXCEPT ![bucketIndex + 1] = @ + roundedCostCents(endMs - startMs, rate)]

\* the array the caller passed, after the call mutated it
distributeLabor(bucketLabor, windowStartMs, effectiveNowMs, timesheet, fallbackRate, employeeRates) ==
    LET startAt == timesheet.startAt
        endAt == IF timesheet.endAt # NULL THEN timesheet.endAt[1] ELSE effectiveNowMs
        startMs == Max(startAt, windowStartMs)
        endMs == Min(endAt, effectiveNowMs)
        rate == resolveTimesheetRate(timesheet, fallbackRate, employeeRates)
    IN  IF endAt <= startAt THEN bucketLabor
        ELSE IF endMs <= startMs THEN bucketLabor
        ELSE IF RLe(rate, RInt(0)) THEN bucketLabor
        ELSE distributeFrom(bucketLabor, startMs, endMs, windowStartMs, rate)

MaxPayments == 2

\* instants on a half-bucket grid, from before the window opens to after it ends
GridInstants == { k * HALF_BUCKET : k \in (-1)..(2 * NumBuckets + 1) }

\* a refund-like negative amount and two sales
PaymentInputs == [createdAt : GridInstants, amountCents : {-200, 400}]

WINDOW_END == NumBuckets * BUCKET_MILLISECONDS

BucketizeCall(in) ==
    \E payments \in SeqsUpTo(PaymentInputs, MaxPayments), nowMs \in NowInputs :
        in = [fn |-> "bucketizeRevenue", payments |-> payments, windowStartMs |-> 0,
              effectiveNowMs |-> nowMs, bucketCount |-> NumBuckets]

\* hourlyRate of a timesheet row: absent, zero, whole dollars, dollars and cents
HourlyRates == { NULL, Some(RInt(0)), Some(RInt(24)), Some(Rat(3333, 100)) }

\* employee 1 has a rate on file, employee 2 has none
EmployeeRates == [e \in {1} |-> RInt(30)]

FALLBACK_RATE == RInt(32)

TimesheetInputs ==
    [startAt : GridInstants, endAt : {NULL} \cup { Some(t) : t \in GridInstants },
     hourlyRate : HourlyRates, employeeId : {NULL, Some(1), Some(2)}]

DistributeCall(in) ==
    \E timesheet \in TimesheetInputs, nowMs \in NowInputs, booked \in {0, 100} :
        in = [fn |-> "distributeLabor", bucketLabor |-> [i \in 1..NumBuckets |-> booked],
              windowStartMs |-> 0, effectiveNowMs |-> nowMs, timesheet |-> timesheet,
              fallbackRate |-> FALLBACK_RATE, employeeRates |-> EmployeeRates]

\* Clock strings and operating windows (time.ts, realtimeSnapshot.ts).  A
\* string is the sequence of its characters; an instant (Date) is counted in
\* whole minutes since 2026-01-01T00:00Z, every instant built here having
\* zero seconds and milliseconds; a LocalDateParts is [year, month, day].
MINUTES_PER_DAY == 24 * 60

DIGITS == <<"0", "1", "2", "3", "4", "5", "6", "7", "8", "9">>

isDigit(ch) == \E d \in 1..Len(DIGITS) : DIGITS[d] = ch

digitOf(ch) == (CHOOSE d \in 1..Len(DIGITS) : DIGITS[d] = ch) - 1

\* clock.split(":"): the parts between the colons
RECURSIVE splitClock(_)
splitClock(clock) ==
    IF \A i \in 1..Len(clock) : clock[i] # ":" THEN <<clock>>
    ELSE LET colon == CHOOSE i \in 1..Len(clock) :
                          clock[i] = ":" /\ \A j \in 1..(i - 1) : clock[j] # ":"
         IN  <<SubSeq(clock, 1, colon - 1)>>
                 \o splitClock(SubSeq(clock, colon + 1, Len(clock)))

\* Number(part) of a part made of decimal digits; NULL stands for NaN
RECURSIVE numberOf(_)
numberOf(part) ==
    IF Len(part) = 0 THEN Some(0)
    ELSE IF ~isDigit(part[Len(part)]) THEN NULL
    ELSE LET front == numberOf(SubSeq(part, 1, Len(part) - 1))
         IN  IF front = NULL THEN NULL
             ELSE Some(front[1] * 10 + digitOf(part[Len(part)]))

parseClockToMinutes(clock) ==
    LET parts == splitClock(clock)
        hours == numberOf(parts[1])
        minutes == IF Len(parts) >= 2 THEN numberOf(parts[2]) ELSE NULL
    IN  IF hours = NULL \/ minutes = NULL THEN 0
        ELSE clampInt(hours[1], 0, 23) * 60 + clampInt(minutes[1], 0, 59)

minutesInOperatingWindow(openingTime, closingTime) ==
    LET difference == parseClockToMinutes(closingTime) - parseClockToMinutes(openingTime)
    IN  IF difference <= 0 THEN difference + MINUTES_PER_DAY ELSE difference

\* n.toString().padStart(2, "0") for 0 <= n < 100
padStart2(n) ==
    IF n < 10 THEN <<"0", DIGITS[n + 1]>>
    ELSE <<DIGITS[(n \div 10) + 1], DIGITS[(n % 10) + 1]>>

formatClock(totalMinutes) ==
    LET wrapped == ((totalMinutes % MINUTES_PER_DAY) + MINUTES_PER_DAY) % MINUTES_PER_DAY
    IN  padStart2(wrapped \div 60) \o <<":">> \o padStart2(wrapped % 60)

buildBucketLabels(openingTime, closingTime, bucketSizeMinutes) ==
    LET operatingMinutes == minutesInOperatingWindow(openingTime, closingTime)
        bucketCount_ == Max(1, Ceil(Rat(operatingMinutes, bucketSizeMinutes)))
        openingMinutes == parseClockToMinutes(openingTime)
    IN  [ index \in 1..bucketCount_ |->
            formatClock(openingMinutes + (index - 1) * bucketSizeMinutes) ]

\* the calendar of Date.UTC and getUTCFullYear/Month/Date over 2026 and 2027
DAYS_IN_MONTH == <<31, 28, 31, 30, 31, 30, 31, 31, 30, 31, 30, 31>>

DAYS_IN_YEAR == SumTo(DAYS_IN_MONTH, Len(DAYS_IN_MONTH))

\* the year instants are counted from
EPOCH_YEAR == Min(2026, 2027)

\* Date.UTC(year, month - 1, day) in days; day may run past the month's end
utcDayNumber(parts) ==
    (parts.year - EPOCH_YEAR) * DAYS_IN_YEAR + SumTo(DAYS_IN_MONTH, parts.month - 1)
        + parts.day - 1

localDateOfDay(dayNumber) ==
    LET year == EPOCH_YEAR + (dayNumber \div DAYS_IN_YEAR)
        dayOfYear == dayNumber % DAYS_IN_YEAR
        month == CHOOSE m \in 1..12 :
                     /\ SumTo(DAYS_IN_MONTH, m - 1) <= dayOfYear
                     /\ dayOfYear < SumTo(DAYS_IN_MONTH, m)
    IN  [ year |-> year, month |-> month,
          day |-> dayOfYear - SumTo(DAYS_IN_MONTH, month - 1) + 1 ]

addDays(parts, days) ==
    localDateOfDay(utcDayNumber([parts EXCEPT !.day = parts.day + days]))

\* both passes of the offset correction see the same fixed offset
zonedClockToUtc(parts, clock, offsetMinutes) ==
    LET clockMinutes == parseClockToMinutes(clock)
        hours == clockMinutes \div 60
        minutes == clockMinutes % 60
        naiveUtc == utcDayNumber(parts) * MINUTES_PER_DAY + hours * 60 + minutes
    IN  naiveUtc - offsetMinutes

\* variant: a closing time equal to the opening time stays on the same date
buildOperatingWindowSameDayWhenEqual(localDate, hours, offsetMinutes) ==
    LET openingMinutes == parseClockToMinutes(hours.openingTime)
        closingMinutes == parseClockToMinutes(hours.closingTime)
        closeDate == IF closingMinutes < openingMinutes THEN addDays(localDate, 1)
                     ELSE localDate
    IN  [ start |-> zonedClockToUtc(localDate, hours.openingTime, offsetMinutes),
          end |-> zonedClockToUtc(closeDate, hours.closingTime, offsetMinutes) ]

buildOperatingWindow(localDate, hours, offsetMinutes) ==
    LET openingMinutes == parseClockToMinutes(hours.openingTime)
        closingMinutes == parseClockToMinutes(hours.closingTime)
        closesNextDay == closingMinutes <= openingMinutes
        closeDate == IF closesNextDay THEN addDays(localDate, 1) ELSE localDate
    IN  [ start |-> zonedClockToUtc(localDate, hours.openingTime, offsetMinutes),
          end |-> zonedClockToUtc(closeDate, hours.closingTime, offsetMinutes) ]

\* opening and closing times as sanitizeClock leaves them in the
\* configuration: "HH:MM" with 00-23 and 00-59
ClockInputs == { formatClock(t) : t \in {0, 1, 300, 900, 967, 1439} }

LocalDateInputs ==
    { [year |-> 2026, month |-> 2, day |-> 28], [year |-> 2026, month |-> 11, day |-> 3],
      [year |-> 2026, month |-> 12, day |-> 31], [year |-> 2027, month |-> 6, day |-> 30] }

\* the venue's UTC offset in minutes: UTC, Brisbane, New York in winter
OffsetInputs == {0, 600, -300}

OperatingWindowCall(in) ==
    \E localDate \in LocalDateInputs, openingTime \in ClockInputs,
       closingTime \in ClockInputs, offsetMinutes \in OffsetInputs :
        in = [fn |-> "buildOperatingWindow", localDate |-> localDate,
              hours |-> [openingTime |-> openingTime, closingTime |-> closingTime],
              offsetMinutes |-> offsetMinutes]

BucketLabelsCall(in) ==
    \E openingTime \in ClockInputs, closingTime \in ClockInputs :
        in = [fn |-> "buildBucketLabels", openingTime |-> openingTime,
              closingTime |-> closingTime, bucketSizeMinutes |-> BUCKET_MINUTES]

InitCalls ==
    /\ pc = "call"
    /\ \/ CumulativeCall(callIn)
       \/ ToPercentCall(callIn)
       \/ WageSeriesCall(callIn)
       \/ BucketizeCall(callIn)
       \/ DistributeCall(callIn)
       \/ OperatingWindowCall(callIn)
       \/ BucketLabelsCall(callIn)
    /\ callOut = NULL
    /\ excludedOpenOrderBaselineByServiceDay = <<>>
    /\ currentRevenueCents = 0
    /\ baselineFractionAtNow = RInt(0)
    /\ rollingAverageRevenueCents = 0
    /\ elapsedFraction = RInt(0)
    /\ isClosed = FALSE
    /\ projection = NULL
    /\ comparableBucketSeries = <<>>
    /\ bucketCount = 0
    /\ baselineFractions = <<>>
    /\ normalizedFractions = <<>>
    /\ ponrIn = NULL
    /\ ponrOut = NULL
    /\ BuildIdle

Cumulative ==
    /\ pc = "call"
    /\ callIn.fn = "cumulative"
    /\ callOut' = cumulative(callIn.values)
    /\ pc' = "returned"
    /\ UNCHANGED <<callIn, excludedOpenOrderBaselineByServiceDay, projVars, baseVars, ponrVars, buildVars>>

ToPercent ==
    /\ pc = "call"
    /\ callIn.fn = "toPercent"
    /\ callOut' = toPercent(callIn.numerator, callIn.denominator)
    /\ pc' = "returned"
    /\ UNCHANGED <<callIn, excludedOpenOrderBaselineByServiceDay, projVars, baseVars, ponrVars, buildVars>>

ComputeWageSeries ==
    /\ pc = "call"
    /\ callIn.fn = "computeWageSeries"
    /\ callOut' = computeWageSeries(callIn.labels, callIn.cumulativeRevenueCents,
                                    callIn.cumulativeLaborCents, callIn.targetWagePercent,
                                    callIn.historicalWagePercentByBucket)
    /\ pc' = "returned"
    /\ UNCHANGED <<callIn, excludedOpenOrderBaselineByServiceDay, projVars, baseVars, ponrVars, buildVars>>

BucketizeRevenue ==
    /\ pc = "call"
    /\ callIn.fn = "bucketizeRevenue"
    /\ callOut' = bucketizeRevenue(callIn.payments, callIn.windowStartMs,
                                   callIn.effectiveNowMs, callIn.bucketCount)
    /\ pc' = "returned"
    /\ UNCHANGED <<callIn, excludedOpenOrderBaselineByServiceDay, projVars, baseVars, ponrVars, buildVars>>

DistributeLabor ==
    /\ pc = "call"
    /\ callIn.fn = "distributeLabor"
    /\ callOut' = distributeLabor(callIn.bucketLabor, callIn.windowStartMs,
                                  callIn.effectiveNowMs, callIn.timesheet,
                                  callIn.fallbackRate, callIn.employeeRates)
    /\ pc' = "returned"
    /\ UNCHANGED <<callIn, excludedOpenOrderBaselineByServiceDay, projVars, baseVars, ponrVars, buildVars>>

BuildOperatingWindow ==
    /\ pc = "call"
    /\ callIn.fn = "buildOperatingWindow"
    /\ callOut' = buildOperatingWindow(callIn.localDate, callIn.hours, callIn.offsetMinutes)
    /\ pc' = "returned"
    /\ UNCHANGED <<callIn, excludedOpenOrderBaselineByServiceDay, projVars, baseVars, ponrVars, buildVars>>

BuildBucketLabels ==
    /\ pc = "call"
    /\ callIn.fn = "buildBucketLabels"
    /\ callOut' = buildBucketLabels(callIn.openingTime, callIn.closingTime,
                                    callIn.bucketSizeMinutes)
    /\ pc' = "returned"
    /\ UNCHANGED <<callIn, excludedOpenOrderBaselineByServiceDay, projVars, baseVars, ponrVars, buildVars>>

NextCalls ==
    \/ Cumulative
    \/ ToPercent
    \/ ComputeWageSeries
    \/ BucketizeRevenue
    \/ DistributeLabor
    \/ BuildOperatingWindow
    \/ BuildBucketLabels

SpecCalls == InitCalls /\ [][NextCalls]_vars

Returned(fn) == pc = "returned" /\ callIn.fn = fn

\* sum of values[i] over the indices i of a set, taken largest index first
RECURSIVE SumOfIndices(_, _)
SumOfIndices(values, indices) ==
    IF indices = {} THEN 0
    ELSE LET top == CHOOSE i \in indices : \A j \in indices : j <= i
         IN  values[top] + SumOfIndices(values, indices \ {top})

\* C19: cumulative(series) has the length of series, its entry i is the sum
\* of series[0..i] inclusive, and cumulative([]) is [].
C19_CumulativeIsPrefixSum ==
    Returned("cumulative") =>
        /\ Len(callOut) = Len(callIn.values)
        /\ \A i \in 1..Len(callIn.values) :
              callOut[i] = SumOfIndices(callIn.values, 1..i)
        /\ callIn.values = <<>> => callOut = <<>>

C19_Witness ==
    /\ Returned("cumulative")
    /\ Len(callIn.values) = 3
    /\ callIn.values[1] > 0 /\ callIn.values[2] > 0 /\ callIn.values[3] > 0
    /\ callOut[3] = callIn.values[1] + callIn.values[2] + callIn.values[3]
    /\ callOut[2] < callOut[3]

\* C20: toPercent(num, den) is null whenever den <= 0 and num/den*100
\* otherwise; toPercent(x, 0) is null and toPercent(0, 100) is 0.
C20_ToPercentNullOrRatio ==
    Returned("toPercent") =>
        /\ callIn.denominator <= 0 => callOut = NULL
        /\ callIn.denominator > 0 =>
              /\ callOut # NULL
              /\ REq(RMul(callOut[1], RInt(callIn.denominator)),
                     RInt(100 * callIn.numerator))
        /\ callIn.denominator = 0 => callOut = NULL
        /\ (callIn.numerator = 0 /\ callIn.denominator = 100) => callOut = Some(RInt(0))

C20_Witness ==
    /\ Returned("toPercent")
    /\ callIn.denominator < 0
    /\ callIn.numerator > 0
    /\ callOut = NULL

\* C12: computeWageSeries returns one WagePoint per label whatever the
\* lengths of the other inputs; the point at index i has currentPercent null
\* when cumulative revenue at i is 0 or missing, labor/revenue*100 otherwise.
C12_OnePointPerLabel ==
    Returned("computeWageSeries") =>
        /\ Len(callOut) = Len(callIn.labels)
        /\ \A i \in 1..Len(callIn.labels) :
              /\ callOut[i].label = callIn.labels[i]
              /\ IF i > Len(callIn.cumulativeRevenueCents) THEN callOut[i].currentPercent = NULL
                 ELSE IF callIn.cumulativeRevenueCents[i] = 0 THEN callOut[i].currentPercent = NULL
                 ELSE /\ callOut[i].currentPercent # NULL
                      /\ REq(RMul(callOut[i].currentPercent[1],
                                  RInt(callIn.cumulativeRevenueCents[i])),
                             RInt(100 * (IF i <= Len(callIn.cumulativeLaborCents)
                                         THEN callIn.cumulativeLaborCents[i] ELSE 0)))

\* three labels, two revenue entries of which the first is 0: a number only
\* at the second point
C12_Witness ==
    /\ Returned("computeWageSeries")
    /\ Len(callIn.labels) = 3
    /\ Len(callIn.cumulativeRevenueCents) = 2
    /\ callIn.cumulativeRevenueCents[1] = 0
    /\ callIn.cumulativeRevenueCents[2] > 0
    /\ Len(callIn.cumulativeLaborCents) = 2
    /\ callIn.cumulativeLaborCents[2] > 0
    /\ callOut[1].currentPercent = NULL
    /\ callOut[2].currentPercent # NULL
    /\ callOut[3].currentPercent = NULL

\* the payments of the call that fall in bucket index (from 0) of the window
\* and before effectiveNow
PaymentsOfBucket(in, index) ==
    { k \in 1..Len(in.payments) :
        /\ in.windowStartMs <= in.payments[k].createdAt
        /\ in.payments[k].createdAt < in.effectiveNowMs
        /\ in.windowStartMs + index * BUCKET_MILLISECONDS <= in.payments[k].createdAt
        /\ in.payments[k].createdAt < in.windowStartMs + (index + 1) * BUCKET_MILLISECONDS }

PositiveAmounts(in) ==
    [k \in 1..Len(in.payments) |-> IF in.payments[k].amountCents > 0
                                   THEN in.payments[k].amountCents ELSE 0]

\* C14: bucketizeRevenue returns bucketCount buckets; bucket i is the sum of
\* max(0, amountCents) over exactly the payments with windowStart <= createdAt
\* < effectiveNow that fall in bucket i; so every bucket with index >=
\* completedBucketCount is 0.
C14_BucketsSumPaymentsBeforeNow ==
    Returned("bucketizeRevenue") =>
        /\ Len(callOut) = callIn.bucketCount
        /\ \A index \in 0..(callIn.bucketCount - 1) :
              callOut[index + 1] =
                  SumOfIndices(PositiveAmounts(callIn), PaymentsOfBucket(callIn, index))
        /\ \A index \in 0..(callIn.bucketCount - 1) :
              index >= completedBucketCountAt(callIn.effectiveNowMs) =>
                  callOut[index + 1] = 0

\* a sale before effectiveNow is counted, a sale at or after it is dropped
C14_Witness ==
    /\ Returned("bucketizeRevenue")
    /\ completedBucketCountAt(callIn.effectiveNowMs) = 2
    /\ Len(callIn.payments) = 2
    /\ callIn.payments[1].createdAt = HALF_BUCKET
    /\ callIn.payments[1].amountCents > 0
    /\ callIn.payments[2].createdAt >= callIn.effectiveNowMs
    /\ callIn.payments[2].createdAt < WINDOW_END
    /\ callIn.payments[2].amountCents > 0
    /\ callOut[1] = callIn.payments[1].amountCents
    /\ callOut[3] = 0

\* the timesheet interval of a distributeLabor call after clipping to
\* [windowStart, effectiveNow], a null endAt read as effectiveNow
ClippedStartMs(in) == Max(in.timesheet.startAt, in.windowStartMs)

ClippedEndMs(in) ==
    Min(IF in.timesheet.endAt = NULL THEN in.effectiveNowMs ELSE in.timesheet.endAt[1],
        in.effectiveNowMs)

\* milliseconds of the clipped interval inside bucket index (from 0)
OverlapMs(in, index) ==
    Max(0, Min(ClippedEndMs(in), in.windowStartMs + (index + 1) * BUCKET_MILLISECONDS)
           - Max(ClippedStartMs(in), in.windowStartMs + index * BUCKET_MILLISECONDS))

RateOf(in) == resolveTimesheetRate(in.timesheet, in.fallbackRate, in.employeeRates)

\* hours x rate x 100, not rounded
ExactCostCents(milliseconds, rate) ==
    RMul(RMul(Rat(milliseconds, MS_PER_HOUR), rate), RInt(100))

IsWhole(x) == x.d = 1

AddedCents(in, out, index) == out[index + 1] - in.bucketLabor[index + 1]

TotalAddedCents(in, out) ==
    SumOfIndices([i \in 1..Len(out) |-> out[i] - in.bucketLabor[i]], 1..Len(out))

SegmentsWholeCents(in) ==
    \A index \in 0..(Len(in.bucketLabor) - 1) :
        IsWhole(ExactCostCents(OverlapMs(in, index), RateOf(in)))

TotalMatchesTimesheetCost(in, out) ==
    SegmentsWholeCents(in) =>
        TotalAddedCents(in, out) =
            computeTimesheetCostCents(in.timesheet, in.windowStartMs, in.effectiveNowMs,
                                      in.fallbackRate, in.employeeRates)

\* C15 as stated: each bucket receives exactly hours x rate x 100 cents of
\* the part of the clipped timesheet interval that overlaps it, other
\* buckets receive nothing, and with whole-cent segments the total equals
\* computeTimesheetCostCents.
C15_EachBucketGetsExactCost ==
    Returned("distributeLabor") =>
        /\ \A index \in 0..(Len(callIn.bucketLabor) - 1) :
              REq(RInt(AddedCents(callIn, callOut, index)),
                  ExactCostCents(OverlapMs(callIn, index), RateOf(callIn)))
        /\ TotalMatchesTimesheetCost(callIn, callOut)

\* C15 amended: each bucket receives the cost of its overlap rounded to the
\* nearest cent (Math.round per segment), other buckets receive nothing, and
\* with whole-cent segments the total equals computeTimesheetCostCents.
C15_EachBucketGetsRoundedCost ==
    Returned("distributeLabor") =>
        /\ Len(callOut) = Len(callIn.bucketLabor)
        /\ \A index \in 0..(Len(callIn.bucketLabor) - 1) :
              AddedCents(callIn, callOut, index) =
                  Round(ExactCostCents(OverlapMs(callIn, index), RateOf(callIn)))
        /\ TotalMatchesTimesheetCost(callIn, callOut)

\* an open timesheet at $33.33 an hour that started half a bucket before the
\* window and runs over one and a half buckets of it: 833.25 and 416.625 cents
C15_Witness ==
    /\ Returned("distributeLabor")
    /\ callIn.timesheet.endAt = NULL
    /\ callIn.timesheet.startAt < callIn.windowStartMs
    /\ callIn.timesheet.hourlyRate = Some(Rat(3333, 100))
    /\ callIn.effectiveNowMs = 3 * HALF_BUCKET
    /\ AddedCents(callIn, callOut, 0) = 833
    /\ AddedCents(callIn, callOut, 1) = 417
    /\ AddedCents(callIn, callOut, 2) = 0

\* the minute of the day a configured "HH:MM" string denotes
MinuteOfDay(clock) == CHOOSE t \in 0..(MINUTES_PER_DAY - 1) : formatClock(t) = clock

\* the calendar date an instant falls on at the venue
LocalDateAt(instant, offsetMinutes) ==
    localDateOfDay((instant + offsetMinutes) \div MINUTES_PER_DAY)

ExpectedWindowMinutes(openingTime, closingTime) ==
    IF MinuteOfDay(closingTime) > MinuteOfDay(openingTime)
    THEN MinuteOfDay(closingTime) - MinuteOfDay(openingTime)
    ELSE MinuteOfDay(closingTime) - MinuteOfDay(openingTime) + MINUTES_PER_DAY

\* C26: under a fixed UTC offset buildOperatingWindow puts the end on the
\* start's local date when closingMinutes > openingMinutes and on the next
\* calendar date otherwise, so end - start = minutesInOperatingWindow, which
\* lies in [1, 1440] minutes; and buildBucketLabels returns exactly
\* ceil(windowMinutes / 15) labels.
C26_WindowAndLabelCount ==
    /\ Returned("buildOperatingWindow")
          => LET openingTime == callIn.hours.openingTime
                 closingTime == callIn.hours.closingTime
                 startDate == LocalDateAt(callOut.start, callIn.offsetMinutes)
                 closeDate == LocalDateAt(callOut.end, callIn.offsetMinutes)
             IN  /\ startDate = callIn.localDate
                 /\ closeDate = IF MinuteOfDay(closingTime) > MinuteOfDay(openingTime)
                                THEN startDate ELSE addDays(startDate, 1)
                 /\ callOut.end - callOut.start
                        = minutesInOperatingWindow(openingTime, closingTime)
                 /\ callOut.end - callOut.start
                        = ExpectedWindowMinutes(openingTime, closingTime)
                 /\ callOut.end - callOut.start \in 1..MINUTES_PER_DAY
    /\ Returned("buildBucketLabels")
          => Len(callOut) * callIn.bucketSizeMinutes
                 \in LET windowMinutes ==
                             ExpectedWindowMinutes(callIn.openingTime, callIn.closingTime)
                     IN  windowMinutes..(windowMinutes + callIn.bucketSizeMinutes - 1)

\* a window that opens and closes at the same clock time on the last day of
\* the year: the end is on 1 January, a full day later
C26_Witness ==
    /\ Returned("buildOperatingWindow")
    /\ callIn.hours.openingTime = callIn.hours.closingTime
    /\ callIn.localDate = [year |-> 2026, month |-> 12, day |-> 31]
    /\ LocalDateAt(callOut.end, callIn.offsetMinutes) = [year |-> 2027, month |-> 1, day |-> 1]
    /\ callOut.end - callOut.start = MINUTES_PER_DAY

----------------------------------------------------------------------------
(* Snapshot build model: one call of buildRealtimeSnapshot as a process.   *)
(* The source holds two revisions of the builder: the one that reads the   *)
(* day's operating hours and returns buildClosedSnapshot on a closed day,  *)
(* and the one that always reports on the fixed reporting window.  The     *)
(* concurrent fetches settle in any order and each is fulfilled or         *)
(* rejected; the four historical weeks are then fetched one after another. *)
(* The reporting window starts at instant 0 and has NumBuckets buckets; no *)
(* open-order label is excluded, so the carry-over baseline is 0.          *)

\* upstream.build: which revision of buildRealtimeSnapshot runs
BUILDS == {"operatingHours", "reportingWindow"}

CONCURRENT_FETCHES(build) ==
    IF build = "reportingWindow"
    THEN {"squarePayments", "squareWeekPayments", "squareOpenOrders",
          "deputyTimesheets", "deputyWeekTimesheets", "deputyEmployees"}
    ELSE {"squarePayments", "squareOpenOrders", "deputyTimesheets", "deputyEmployees"}

HISTORICAL_FETCHES ==
    <<"historicalWeek1", "historicalWeek2", "historicalWeek3", "historicalWeek4">>

HistoricalSet == { HISTORICAL_FETCHES[w] : w \in 1..Len(HISTORICAL_FETCHES) }

\* what Square holds for tonight: a sale as the window opens, one in the
\* second bucket, a refund, and a sale of the night before
TonightPayments ==
    << [createdAt |-> 0, amountCents |-> 400],
       [createdAt |-> BUCKET_MILLISECONDS + HALF_BUCKET, amountCents |-> 700],
       [createdAt |-> HALF_BUCKET, amountCents |-> -200],
       [createdAt |-> -HALF_BUCKET, amountCents |-> 500] >>

\* what Deputy holds for tonight: one open timesheet with its own rate and
\* one finished timesheet paid at the employee's rate
TonightTimesheets ==
    << [startAt |-> 0, endAt |-> NULL, hourlyRate |-> Some(RInt(24)), employeeId |-> NULL],
       [startAt |-> HALF_BUCKET, endAt |-> Some(BUCKET_MILLISECONDS),
        hourlyRate |-> NULL, employeeId |-> Some(1)] >>

\* the same weekday of an earlier week: trade through the night, or none
HistoricalPayments(kind, week) ==
    IF kind = "quiet" THEN <<>>
    ELSE << [createdAt |-> 0, amountCents |-> 100 * week],
            [createdAt |-> BUCKET_MILLISECONDS, amountCents |-> 300],
            [createdAt |-> WINDOW_END - HALF_BUCKET, amountCents |-> 600] >>

REVENUE_TARGET_CENTS == 1200

WAGE_TARGET_PERCENT == RInt(25)

\* week-to-date totals of the days before tonight
PRIOR_WEEK_REVENUE_CENTS == 3200

PRIOR_WEEK_WAGES_CENTS == 200

\* Date.now() of the call: before the window opens, inside it, after it ends
BuildInstants == {-HALF_BUCKET, 0, HALF_BUCKET, 3 * HALF_BUCKET, WINDOW_END, WINDOW_END + HALF_BUCKET}

UpstreamInput(up) ==
    \E build \in BUILDS, closed \in BOOLEAN, nowMs \in BuildInstants, openBills \in {0, 300}, history \in {"busy", "quiet"} :
        up = [ build |-> build, isClosed |-> closed, nowMs |-> nowMs,
               payments |-> TonightPayments, timesheets |-> TonightTimesheets,
               openBillsCents |-> openBills, history |-> history ]

\* variant: the work is awaited without the try/catch, a throw propagates
awaitedUnguarded(outcome) == IF outcome = "resolved" THEN "fulfilled" ELSE "threw"

\* settled(work): the status of the SettledResult for what the work did
settled(outcome) == IF outcome = "resolved" THEN "fulfilled" ELSE "rejected"

\* a settled result's rows: result.status === "fulfilled" ? extract(value) : []
settledRows(status, rows) == IF status = "fulfilled" THEN rows ELSE <<>>

\* the for loop over timesheets calling distributeLabor on one array
RECURSIVE laborByBucketFrom(_, _, _, _, _)
laborByBucketFrom(timesheets, k, effectiveNowMs, fallbackRate, employeeRates) ==
    IF k = 0 THEN [i \in 1..NumBuckets |-> 0]
    ELSE distributeLabor(
            laborByBucketFrom(timesheets, k - 1, effectiveNowMs, fallbackRate, employeeRates),
            0, effectiveNowMs, timesheets[k], fallbackRate, employeeRates)

RECURSIVE sumTimesheetCostFrom(_, _, _, _, _)
sumTimesheetCostFrom(timesheets, k, windowEndMs, fallbackRate, employeeRates) ==
    IF k = 0 THEN 0
    ELSE sumTimesheetCostFrom(timesheets, k - 1, windowEndMs, fallbackRate, employeeRates)
         + computeTimesheetCostCents(timesheets[k], 0, windowEndMs, fallbackRate, employeeRates)

RECURSIVE totalRateFrom(_, _, _, _, _)
totalRateFrom(timesheets, k, effectiveNowMs, fallbackRate, employeeRates) ==
    IF k = 0 THEN RInt(0)
    ELSE LET before == totalRateFrom(timesheets, k - 1, effectiveNowMs, fallbackRate, employeeRates)
             timesheet == timesheets[k]
             rate == resolveTimesheetRate(timesheet, fallbackRate, employeeRates)
         IN  IF timesheet.startAt > effectiveNowMs THEN before
             ELSE IF timesheet.endAt # NULL /\ timesheet.endAt[1] <= effectiveNowMs THEN before
             ELSE IF RLt(RInt(0), rate) THEN RAdd(before, rate)
             ELSE before

computeCurrentHourlySpendRate(timesheets, effectiveNowMs, fallbackRate, employeeRates) ==
    LET totalRate == totalRateFrom(timesheets, Len(timesheets), effectiveNowMs, fallbackRate, employeeRates)
    IN  IF RLe(totalRate, RInt(0)) THEN fallbackRate ELSE totalRate

\* the comparable nights gathered by the historical loop up to a week: the
\* bucketed payments of each week whose fetch was fulfilled
RECURSIVE comparableSeriesFrom(_, _, _)
comparableSeriesFrom(statuses, history, week) ==
    IF week = 0 THEN <<>>
    ELSE LET before == comparableSeriesFrom(statuses, history, week - 1)
         IN  IF statuses[HISTORICAL_FETCHES[week]] = "fulfilled"
             THEN Append(before, bucketizeRevenue(HistoricalPayments(history, week), 0,
                                                  WINDOW_END, NumBuckets))
             ELSE before

getBaselineFractionAtIndex(fractions, bucketIndex) ==
    IF Len(fractions) = 0 THEN SENTINEL_FRACTION
    ELSE clamp(fractions[clampInt(bucketIndex, 0, Len(fractions) - 1) + 1], RInt(0), RInt(1))

\* a dollars-per-hour rate in cents per hour
rateCents(rate) == Round(RMul(rate, RInt(100)))

\* variant: the open bills are shown in the first bucket before any bucket
\* has started
revenueBucketsOpenBillsFromStart(closedRevenueByBucket, laborByBucket, completedBucketCount, openBillsCents) ==
    [ i \in 1..NumBuckets |->
        [ bucketIndex |-> i - 1,
          label |-> bucketLabels(NumBuckets)[i],
          closedRevenueCents |-> At0(closedRevenueByBucket, i - 1, 0),
          openBillsCents |-> IF i - 1 = Max(0, completedBucketCount - 1)
                             THEN openBillsCents ELSE 0,
          laborCostCents |-> At0(laborByBucket, i - 1, 0) ] ]

revenueBucketsOf(closedRevenueByBucket, laborByBucket, completedBucketCount, openBillsCents) ==
    [ i \in 1..NumBuckets |->
        [ bucketIndex |-> i - 1,
          label |-> bucketLabels(NumBuckets)[i],
          closedRevenueCents |-> At0(closedRevenueByBucket, i - 1, 0),
          openBillsCents |-> IF i - 1 = Max(0, completedBucketCount - 1) /\ completedBucketCount > 0
                             THEN openBillsCents ELSE 0,
          laborCostCents |-> At0(laborByBucket, i - 1, 0) ] ]

\* the LiveSnapshot of an open day, from the settled fetches
openSnapshot(up, statuses) ==
    LET effectiveNowMs == clampInt(up.nowMs, 0, WINDOW_END)
        completedBucketCount == completedBucketCountAt(effectiveNowMs)
        elapsedFraction_ == clamp(Rat(effectiveNowMs, WINDOW_END), RInt(0), RInt(1))
        payments == settledRows(statuses["squarePayments"], up.payments)
        timesheets == settledRows(statuses["deputyTimesheets"], up.timesheets)
        employeeRates == IF statuses["deputyEmployees"] = "fulfilled" THEN EmployeeRates ELSE <<>>
        currentHourlySpendRate ==
            computeCurrentHourlySpendRate(timesheets, effectiveNowMs, FALLBACK_RATE, employeeRates)
        closedRevenueByBucket == bucketizeRevenue(payments, 0, effectiveNowMs, NumBuckets)
        openBillsCents == IF statuses["squareOpenOrders"] = "fulfilled" THEN up.openBillsCents ELSE 0
        laborByBucket ==
            laborByBucketFrom(timesheets, Len(timesheets), effectiveNowMs, FALLBACK_RATE, employeeRates)
        cumulativeClosedRevenue == cumulative(closedRevenueByBucket)
        cumulativeLabor == cumulative(laborByBucket)
        actualRevenueCents == At0(cumulativeClosedRevenue, completedBucketCount - 1, 0)
        adjustedRevenueCents ==
            actualRevenueCents + (IF completedBucketCount > 0 THEN openBillsCents ELSE 0)
        laborCostCents == At0(cumulativeLabor, completedBucketCount - 1, 0)
        wagePercent == toPercent(laborCostCents, adjustedRevenueCents)
        withWeek == up.build = "reportingWindow"
        weeklyRevenueToDateCents ==
            IF withWeek /\ statuses["squareWeekPayments"] = "fulfilled"
            THEN Some(PRIOR_WEEK_REVENUE_CENTS
                      + SumTo(bucketizeRevenue(up.payments, 0, effectiveNowMs, NumBuckets), NumBuckets))
            ELSE NULL
        weeklyWagesToDateCents ==
            IF withWeek /\ statuses["deputyWeekTimesheets"] = "fulfilled"
            THEN Some(PRIOR_WEEK_WAGES_CENTS
                      + sumTimesheetCostFrom(up.timesheets, Len(up.timesheets), effectiveNowMs,
                                             FALLBACK_RATE, employeeRates))
            ELSE NULL
        comparableSeries == comparableSeriesFrom(statuses, up.history, Len(HISTORICAL_FETCHES))
        comparableTotals == [n \in 1..Len(comparableSeries) |->
                                SumTo(comparableSeries[n], Len(comparableSeries[n]))]
        lastWeekRevenueCents == At0(comparableTotals, 0, 0)
        rollingAverage ==
            IF Len(comparableTotals) > 0
            THEN Round(Rat(SumTo(comparableTotals, Len(comparableTotals)), Len(comparableTotals)))
            ELSE REVENUE_TARGET_CENTS
        fractions ==
            normalizeFractions(IF Len(comparableSeries) > 0
                               THEN buildBaselineFractions(comparableSeries)
                               ELSE buildFallbackFractions(NumBuckets), NumBuckets)
        fractionAtNow == getBaselineFractionAtIndex(fractions, Max(0, completedBucketCount - 1))
        projected == computeProjection(adjustedRevenueCents, fractionAtNow, rollingAverage,
                                       elapsedFraction_)
        ponrArguments ==
            [ PonrInput("realtime", <<IF up.isClosed THEN {"sunday"} ELSE {}, "sunday">>,
                        effectiveNowMs, <<0, WINDOW_END>>, closedRevenueByBucket, laborByBucket,
                        openBillsCents, fractions, projected.rampedProjectedTotalCents,
                        NULL, NULL, WAGE_TARGET_PERCENT, rateCents(FALLBACK_RATE),
                        rateCents(currentHourlySpendRate), NULL)
              EXCEPT !.weeklyRevenueToDateCents = weeklyRevenueToDateCents,
                     !.weeklyWagesToDateCents = weeklyWagesToDateCents ]
        historicalWagePercentByBucket == [i \in 1..NumBuckets |-> WAGE_TARGET_PERCENT]
    IN  [ weekly |-> IF withWeek
                     THEN Some([ revenueToDateCents |-> weeklyRevenueToDateCents,
                                 wagesToDateCents |-> weeklyWagesToDateCents ])
                     ELSE NULL,
          pointOfNoReturn |-> IF withWeek THEN Some(buildPointOfNoReturnSnapshot(ponrArguments))
                              ELSE NULL,
          totals |-> [ actualRevenueCents |-> actualRevenueCents,
                       openBillsCents |-> IF completedBucketCount > 0 THEN openBillsCents ELSE 0,
                       adjustedRevenueCents |-> adjustedRevenueCents,
                       projectedRevenueCents |-> projected.rampedProjectedTotalCents,
                       laborCostCents |-> laborCostCents,
                       wagePercent |-> wagePercent ],
          comparison |-> [ lastWeekRevenueCents |-> lastWeekRevenueCents,
                           rollingAverageRevenueCents |-> rollingAverage ],
          projection |-> projected,
          timeline |-> [ revenueBuckets |-> revenueBucketsOf(closedRevenueByBucket, laborByBucket,
                                                             completedBucketCount, openBillsCents),
                         baselineFractions |-> fractions,
                         wageSeries |-> computeWageSeries(bucketLabels(NumBuckets),
                                                          cumulativeClosedRevenue, cumulativeLabor,
                                                          WAGE_TARGET_PERCENT,
                                                          historicalWagePercentByBucket),
                         historicalWagePercentByBucket |-> historicalWagePercentByBucket ] ]

\* buildClosedSnapshot: the label "Closed" is modelled by -1, no bucket's start
CLOSED_LABEL == -1

buildClosedSnapshot ==
    [ weekly |-> NULL,
      pointOfNoReturn |-> NULL,
      totals |-> [ actualRevenueCents |-> 0, openBillsCents |-> 0, adjustedRevenueCents |-> 0,
                   projectedRevenueCents |-> 0, laborCostCents |-> 0, wagePercent |-> NULL ],
      comparison |-> [ lastWeekRevenueCents |-> 0, rollingAverageRevenueCents |-> 0 ],
      projection |-> closedProjection,
      timeline |-> [ revenueBuckets |-> << [ bucketIndex |-> 0, label |-> CLOSED_LABEL,
                                             closedRevenueCents |-> 0, openBillsCents |-> 0,
                                             laborCostCents |-> 0 ] >>,
                     baselineFractions |-> <<RInt(0)>>,
                     wageSeries |-> << [ label |-> CLOSED_LABEL, currentPercent |-> NULL,
                                         targetPercent |-> WAGE_TARGET_PERCENT,
                                         historicalPercent |-> WAGE_TARGET_PERCENT ] >>,
                     historicalWagePercentByBucket |-> <<WAGE_TARGET_PERCENT>> ] ]

AllFetches(build) == CONCURRENT_FETCHES(build) \cup HistoricalSet

InitBuild ==
    /\ pc = "start"
    /\ UpstreamInput(upstream)
    /\ fetched = [f \in AllFetches(upstream.build) |-> "idle"]
    /\ buildResult = NULL
    /\ currentRevenueCents = 0
    /\ baselineFractionAtNow = RInt(0)
    /\ rollingAverageRevenueCents = 0
    /\ elapsedFraction = RInt(0)
    /\ isClosed = FALSE
    /\ projection = NULL
    /\ comparableBucketSeries = <<>>
    /\ bucketCount = 0
    /\ baselineFractions = <<>>
    /\ normalizedFractions = <<>>
    /\ ponrIn = NULL
    /\ ponrOut = NULL
    /\ CallsIdle

\* if (operatingHours.isClosed) return { snapshot: buildClosedSnapshot(...), ... }
ReturnClosedSnapshot ==
    /\ pc = "start"
    /\ upstream.build = "operatingHours"
    /\ upstream.isClosed
    /\ fetched' = [f \in DOMAIN fetched |-> "skipped"]
    /\ buildResult' = [ snapshot |-> buildClosedSnapshot, integration |-> [status |-> fetched'] ]
    /\ pc' = "built"
    /\ UNCHANGED <<upstream, projVars, baseVars, ponrVars, callVars>>

\* Promise.all([...]) issues the concurrent fetches
StartFetches ==
    /\ pc = "start"
    /\ ~(upstream.build = "operatingHours" /\ upstream.isClosed)
    /\ fetched' = [f \in DOMAIN fetched |->
                      IF f \in CONCURRENT_FETCHES(upstream.build) THEN "pending" ELSE fetched[f]]
    /\ pc' = "fetching"
    /\ UNCHANGED <<upstream, buildResult, projVars, baseVars, ponrVars, callVars>>

\* settled(): one concurrent fetch resolves or throws
Settle(fetch) ==
    /\ pc = "fetching"
    /\ fetched[fetch] = "pending"
    /\ \E outcome \in {"resolved", "threw"} :
          /\ fetched' = [fetched EXCEPT ![fetch] = settled(outcome)]
          /\ pc' = IF settled(outcome) = "threw" THEN "threw"
                   ELSE IF \A f \in CONCURRENT_FETCHES(upstream.build) \ {fetch} :
                              fetched[f] # "pending"
                   THEN "historical" ELSE "fetching"
    /\ UNCHANGED <<upstream, buildResult, projVars, baseVars, ponrVars, callVars>>

\* the historical week being awaited: the first one not yet settled
nextHistoricalWeek ==
    CHOOSE w \in 1..(Len(HISTORICAL_FETCHES) + 1) :
        /\ \A v \in 1..(w - 1) : fetched[HISTORICAL_FETCHES[v]] # "idle"
        /\ w <= Len(HISTORICAL_FETCHES) => fetched[HISTORICAL_FETCHES[w]] = "idle"

\* one turn of the historical loop: await settled(fetchSquarePayments(compareWindow))
SettleHistorical ==
    /\ pc = "historical"
    /\ nextHistoricalWeek <= Len(HISTORICAL_FETCHES)
    /\ \E outcome \in {"resolved", "threw"} :
          /\ fetched' = [fetched EXCEPT ![HISTORICAL_FETCHES[nextHistoricalWeek]] = settled(outcome)]
          /\ pc' = IF settled(outcome) = "threw" THEN "threw" ELSE pc
    /\ UNCHANGED <<upstream, buildResult, projVars, baseVars, ponrVars, callVars>>

\* the rest of the function: totals, baseline, projection, timeline, summary
BuildSnapshot ==
    /\ pc = "historical"
    /\ nextHistoricalWeek > Len(HISTORICAL_FETCHES)
    /\ buildResult' = [ snapshot |-> openSnapshot(upstream, fetched),
                        integration |-> [status |-> fetched] ]
    /\ pc' = "built"
    /\ UNCHANGED <<upstream, fetched, projVars, baseVars, ponrVars, callVars>>

\* Sample data source: the revenue side of buildLiveSnapshot.  The seeded
\* generators are inputs: fullNightRevenue is what scaleShapeToTotal returned,
\* openBillsMultiplier is 0.16 + seededUnit * 0.2.  The labor, projection and
\* weekly parts of the sample snapshot are not part of this model.
withFutureBucketsZeroed(values, completedBucketCount) ==
    [ i \in 1..Len(values) |-> IF i - 1 < completedBucketCount THEN values[i] ELSE 0 ]

\* closedRevenueByBucket.slice(lookbackStart, completedBucketCount).reduce(sum)
sumSlice(values, from, to) == SumTo(values, Min(to, Len(values))) - SumTo(values, Min(from, Len(values)))

buildRevenueBuckets(closedRevenueByBucket, openBillsCents, completedBucketCount) ==
    [ i \in 1..NumBuckets |->
        [ bucketIndex |-> i - 1,
          label |-> bucketLabels(NumBuckets)[i],
          closedRevenueCents |-> At0(closedRevenueByBucket, i - 1, 0),
          openBillsCents |-> IF i - 1 = Max(0, completedBucketCount - 1)
                             THEN openBillsCents ELSE 0 ] ]

buildLiveSnapshot(fullNightRevenue, elapsedMinutes, openBillLookbackBuckets, openBillsMultiplier) ==
    LET completedBucketCount ==
            clampInt(Ceil(Rat(elapsedMinutes, BUCKET_MINUTES)), 0, NumBuckets)
        closedRevenueByBucket == withFutureBucketsZeroed(fullNightRevenue, completedBucketCount)
        cumulativeClosedRevenue == cumulative(closedRevenueByBucket)
        actualRevenueCents == At0(cumulativeClosedRevenue, completedBucketCount - 1, 0)
        lookbackStart == Max(0, completedBucketCount - openBillLookbackBuckets)
        recentClosedRevenue == sumSlice(closedRevenueByBucket, lookbackStart, completedBucketCount)
        openBillsCents ==
            IF completedBucketCount > 0
            THEN Round(RMul(RInt(recentClosedRevenue), openBillsMultiplier)) ELSE 0
    IN  [ totals |-> [ actualRevenueCents |-> actualRevenueCents,
                       openBillsCents |-> openBillsCents,
                       adjustedRevenueCents |-> actualRevenueCents + openBillsCents ],
          timeline |-> [ revenueBuckets |->
                             buildRevenueBuckets(closedRevenueByBucket, openBillsCents,
                                                 completedBucketCount) ] ]

FullNightRevenue == [1..NumBuckets -> {0, 400}]

\* minutesSinceOpening of the call, up to the length of the window
ElapsedMinutes == { 0, 7, BUCKET_MINUTES, 22, NumBuckets * BUCKET_MINUTES }

\* max(1, round(averageBillLengthMinutes / 15))
LookbackBuckets == {1, 2}

OpenBillsMultipliers == { Rat(16, 100), Rat(35, 100) }

\* dataSourceMode "sample": the dashboard shows buildLiveSnapshot(config, now)
BuildLiveSnapshot ==
    /\ pc = "start"
    /\ \E fullNightRevenue \in FullNightRevenue, elapsedMinutes \in ElapsedMinutes,
          openBillLookbackBuckets \in LookbackBuckets,
          openBillsMultiplier \in OpenBillsMultipliers :
          buildResult' = [ snapshot |-> buildLiveSnapshot(fullNightRevenue, elapsedMinutes,
                                                          openBillLookbackBuckets,
                                                          openBillsMultiplier),
                           integration |-> NULL ]
    /\ pc' = "sample"
    /\ UNCHANGED <<upstream, fetched, projVars, baseVars, ponrVars, callVars>>

NextBuild ==
    \/ ReturnClosedSnapshot
    \/ StartFetches
    \/ \E fetch \in DOMAIN fetched : Settle(fetch)
    \/ SettleHistorical
    \/ BuildSnapshot
    \/ BuildLiveSnapshot

SpecBuild == InitBuild /\ [][NextBuild]_vars

Built == pc = "built"

\* the call went through the fetches (it did not return buildClosedSnapshot)
BuiltFromFetches == Built /\ ~(upstream.build = "operatingHours" /\ upstream.isClosed)

BuiltCompletedBucketCount == completedBucketCountAt(clampInt(upstream.nowMs, 0, WINDOW_END))

\* C11: in every snapshot's wageSeries, currentPercent is null for every
\* bucket with index >= completedBucketCount, whatever revenue was taken
\* earlier in the night.
C11_FutureBucketsHaveNoPercent ==
    Built =>
        \A i \in 1..Len(buildResult.snapshot.timeline.wageSeries) :
            (BuiltFromFetches /\ i - 1 >= BuiltCompletedBucketCount) =>
                buildResult.snapshot.timeline.wageSeries[i].currentPercent = NULL

\* C13: on a day whose operating hours are marked isClosed the snapshot has
\* revenue, open-bill, projected and labor totals 0, wagePercent null, a
\* timeline of exactly one revenue bucket labelled Closed, and every
\* integration status is skipped (no upstream fetch was issued).
C13_ClosedDayReturnsClosedSnapshot ==
    (Built /\ upstream.isClosed) =>
        /\ buildResult.snapshot.totals.actualRevenueCents = 0
        /\ buildResult.snapshot.totals.openBillsCents = 0
        /\ buildResult.snapshot.totals.projectedRevenueCents = 0
        /\ buildResult.snapshot.totals.laborCostCents = 0
        /\ buildResult.snapshot.totals.wagePercent = NULL
        /\ Len(buildResult.snapshot.timeline.revenueBuckets) = 1
        /\ buildResult.snapshot.timeline.revenueBuckets[1].label = CLOSED_LABEL
        /\ \A f \in DOMAIN fetched : buildResult.integration.status[f] = "skipped"

ComparableWeeks == { w \in 1..Len(HISTORICAL_FETCHES) : fetched[HISTORICAL_FETCHES[w]] = "fulfilled" }

AllZero(fractions) == \A i \in 1..Len(fractions) : REq(fractions[i], RInt(0))

\* C16: when no comparable night exists, or every comparable night's
\* revenue total is zero, the baseline of the projection is the sentinel
\* [0.02] or the linear ramp (i+1)/bucketCount, never an all-zero sequence.
C16_BaselineFallsBack ==
    (BuiltFromFetches /\ (ComparableWeeks = {} \/ upstream.history = "quiet")) =>
        /\ \/ buildResult.snapshot.timeline.baselineFractions = <<SENTINEL_FRACTION>>
           \/ buildResult.snapshot.timeline.baselineFractions = RampBaseline
        /\ ~AllZero(buildResult.snapshot.timeline.baselineFractions)

AllRevenueZero(snap) ==
    \A i \in 1..Len(snap.timeline.revenueBuckets) :
        snap.timeline.revenueBuckets[i].closedRevenueCents = 0

AllLaborZero(snap) ==
    \A i \in 1..Len(snap.timeline.revenueBuckets) :
        snap.timeline.revenueBuckets[i].laborCostCents = 0

\* C17: buildRealtimeSnapshot returns a snapshot for every combination of
\* fulfilled and rejected fetches (no outcome stops the call before it
\* returns); a rejected payments fetch gives an all-zero revenue series, a
\* rejected timesheet fetch an all-zero labor series, and the integration
\* summary records each fetch's own status.
C17_BuildSurvivesFailedFetches ==
    /\ pc # "threw"
    /\ pc = "fetching" => \E f \in CONCURRENT_FETCHES(upstream.build) : fetched[f] = "pending"
    /\ pc = "historical" => \A f \in CONCURRENT_FETCHES(upstream.build) : fetched[f] # "pending"
    /\ pc \in {"start", "fetching", "historical"} => buildResult = NULL
    /\ BuiltFromFetches =>
        /\ buildResult # NULL
        /\ \A f \in DOMAIN fetched :
              /\ fetched[f] \in {"fulfilled", "rejected"}
              /\ buildResult.integration.status[f] = fetched[f]
        /\ fetched["squarePayments"] = "rejected" => AllRevenueZero(buildResult.snapshot)
        /\ fetched["deputyTimesheets"] = "rejected" => AllLaborZero(buildResult.snapshot)

\* payments rejected while timesheets are fulfilled, one historical week
\* rejected and the next fulfilled: no revenue, labor booked, statuses kept
C17_Witness ==
    /\ BuiltFromFetches
    /\ upstream.build = "reportingWindow"
    /\ upstream.nowMs = WINDOW_END
    /\ fetched["squarePayments"] = "rejected"
    /\ fetched["squareWeekPayments"] = "fulfilled"
    /\ fetched["deputyTimesheets"] = "fulfilled"
    /\ fetched["deputyEmployees"] = "rejected"
    /\ fetched["historicalWeek1"] = "rejected"
    /\ fetched["historicalWeek2"] = "fulfilled"
    /\ AllRevenueZero(buildResult.snapshot)
    /\ ~AllLaborZero(buildResult.snapshot)
    /\ buildResult.integration.status["squarePayments"] = "rejected"
    /\ buildResult.integration.status["deputyTimesheets"] = "fulfilled"

\* C18: when the payments fetch or the timesheet fetch is rejected,
\* totals.wagePercent and every wageSeries currentPercent are null.
C18_FailedFetchGivesNullPercents ==
    (BuiltFromFetches /\ (fetched["squarePayments"] = "rejected"
                          \/ fetched["deputyTimesheets"] = "rejected")) =>
        /\ buildResult.snapshot.totals.wagePercent = NULL
        /\ \A i \in 1..Len(buildResult.snapshot.timeline.wageSeries) :
              buildResult.snapshot.timeline.wageSeries[i].currentPercent = NULL

Settled(fetch) == fetched[fetch] \in {"fulfilled", "rejected"}

\* C25: the current-window, week-window, open-order, timesheet, employee
\* and four historical-week fetches are issued concurrently: none of them is
\* still unstarted once another has settled, and the snapshot is assembled
\* after all of them have settled.
C25_AllFetchesConcurrent ==
    /\ \A f, g \in DOMAIN fetched : Settled(g) => fetched[f] # "idle"
    /\ BuiltFromFetches => \A f \in DOMAIN fetched : Settled(f)

\* the bucketed revenue total of the comparable night a given number of weeks back
HistoricalWeekTotal(week) ==
    LET bucketed == bucketizeRevenue(HistoricalPayments(upstream.history, week), 0,
                                     WINDOW_END, NumBuckets)
    IN  SumTo(bucketed, Len(bucketed))

\* C30: in every realtime snapshot comparison.lastWeekRevenueCents is the
\* bucketed revenue total of historical week 1, and 0 when that week's
\* fetch failed, whatever the fetches of weeks 2 to 4 did.
C30_LastWeekIsHistoricalWeekOne ==
    BuiltFromFetches
        => buildResult.snapshot.comparison.lastWeekRevenueCents
               = IF fetched["historicalWeek1"] = "fulfilled"
                 THEN HistoricalWeekTotal(1) ELSE 0

\* a snapshot was returned, by either revision of buildRealtimeSnapshot or
\* by buildLiveSnapshot
SnapshotReturned == pc \in {"built", "sample"}

RECURSIVE SumClosedRevenue(_, _)
SumClosedRevenue(buckets, n) ==
    IF n = 0 THEN 0 ELSE SumClosedRevenue(buckets, n - 1) + buckets[n].closedRevenueCents

RECURSIVE SumOpenBills(_, _)
SumOpenBills(buckets, n) ==
    IF n = 0 THEN 0 ELSE SumOpenBills(buckets, n - 1) + buckets[n].openBillsCents

\* C29: in every snapshot of buildRealtimeSnapshot and buildLiveSnapshot
\* totals.adjustedRevenueCents = totals.actualRevenueCents +
\* totals.openBillsCents, totals.actualRevenueCents is the sum of
\* closedRevenueCents over the revenue buckets, and the buckets'
\* openBillsCents add up to totals.openBillsCents.
C29_TotalsMatchBuckets ==
    SnapshotReturned
        => LET totals == buildResult.snapshot.totals
               buckets == buildResult.snapshot.timeline.revenueBuckets
           IN  /\ totals.adjustedRevenueCents
                      = totals.actualRevenueCents + totals.openBillsCents
               /\ totals.actualRevenueCents = SumClosedRevenue(buckets, Len(buckets))
               /\ totals.openBillsCents = SumOpenBills(buckets, Len(buckets))

\* a realtime snapshot taken before the first bucket has started while
\* Square reports open bills: they are in no bucket and not in the totals
C29_Witness ==
    /\ BuiltFromFetches
    /\ BuiltCompletedBucketCount = 0
    /\ upstream.openBillsCents > 0
    /\ fetched["squareOpenOrders"] = "fulfilled"
    /\ buildResult.snapshot.totals.openBillsCents = 0
    /\ SumOpenBills(buildResult.snapshot.timeline.revenueBuckets, NumBuckets) = 0

----------------------------------------------------------------------------
(* Carryover baseline cache: the module-level Map of excluded open-order   *)
(* baselines across the polls of one server process.  The Map is the       *)
(* sequence of its entries in insertion order.  windowStartMs is counted   *)
(* in service days, and an excluded label is its rank in alphabetical      *)
(* order.                                                                  *)

\* excludedOpenOrderBaselineByServiceDay.size > 200
CACHE_LIMIT == 200

LOCATION_ID == "L1"

\* [...excludedLabels].sort()
RECURSIVE sortLabels(_)
sortLabels(labels) ==
    IF Len(labels) <= 1 THEN labels
    ELSE LET least == CHOOSE i \in 1..Len(labels) :
                          \A j \in 1..Len(labels) : labels[i] <= labels[j]
         IN  <<labels[least]>>
                 \o sortLabels(SubSeq(labels, 1, least - 1)
                                   \o SubSeq(labels, least + 1, Len(labels)))

\* the key's three parts, kept apart instead of joined by "|"
buildExcludedServiceDayKey(locationId, windowStartMs, excludedLabels) ==
    <<locationId, windowStartMs, sortLabels(excludedLabels)>>

\* Map.get: the position of the key's entry, 0 when the Map has none
mapIndexOf(map, key) ==
    IF \E i \in 1..Len(map) : map[i].key = key
    THEN CHOOSE i \in 1..Len(map) : map[i].key = key
    ELSE 0

\* variant: a later poll of a stored key replaces its baseline
getExcludedCarryoverBaselineCentsRefreshing(map, locationId, windowStartMs, excludedLabels, currentExcludedTotalCents) ==
    LET key == buildExcludedServiceDayKey(locationId, windowStartMs, excludedLabels)
        existing == mapIndexOf(map, key)
        entry == [ key |-> key, baselineCents |-> Max(0, currentExcludedTotalCents) ]
    IN  IF Len(excludedLabels) = 0 THEN [ map |-> map, baselineCents |-> 0 ]
        ELSE IF existing # 0
        THEN [ map |-> [map EXCEPT ![existing] = entry],
               baselineCents |-> Max(0, currentExcludedTotalCents) ]
        ELSE [ map |-> Append(IF Len(map) > CACHE_LIMIT THEN Tail(map) ELSE map, entry),
               baselineCents |-> Max(0, currentExcludedTotalCents) ]

\* the Map after the call, and the baseline the call returns
getExcludedCarryoverBaselineCents(map, locationId, windowStartMs, excludedLabels, currentExcludedTotalCents) ==
    LET key == buildExcludedServiceDayKey(locationId, windowStartMs, excludedLabels)
        existing == mapIndexOf(map, key)
        afterEviction == IF Len(map) > CACHE_LIMIT THEN Tail(map) ELSE map
        entry == [ key |-> key, baselineCents |-> Max(0, currentExcludedTotalCents) ]
    IN  IF Len(excludedLabels) = 0 THEN [ map |-> map, baselineCents |-> 0 ]
        ELSE IF existing # 0
        THEN [ map |-> map, baselineCents |-> map[existing].baselineCents ]
        ELSE [ map |-> Append(afterEviction, entry),
               baselineCents |-> Max(0, currentExcludedTotalCents) ]

\* number of service days the process lives through
MaxServiceDays == 203

\* the latest service day the Map holds, 0 for an empty Map: service days
\* are stored in order and only a replayed first day can follow a later one,
\* so it is one of the two newest entries
latestServiceDay(map) ==
    IF Len(map) = 0 THEN 0
    ELSE IF Len(map) = 1 THEN map[1].key[2]
    ELSE Max(map[Len(map)].key[2], map[Len(map) - 1].key[2])

\* a poll is for the latest service day, the one after it, or the first
\* one (a replayed reference date)
ServiceDaysToPoll(map) ==
    { day \in {1, latestServiceDay(map),
                latestServiceDay(map) + 1} :
        day >= 1 /\ day <= MaxServiceDays }

\* the venue's excluded labels as configured: none, or two in either order
ExcludedLabelLists == { <<>>, <<1, 2>>, <<2, 1>> }

\* sum of max(0, amountCents) over the excluded open orders; it varies on the
\* first two service days and is 300 cents on the others; no order is
\* excluded when no label is
ExcludedTotals(windowStartMs, excludedLabels) ==
    IF Len(excludedLabels) = 0 THEN {0}
    ELSE IF windowStartMs <= 2 THEN {0, 300, 800}
    ELSE {300}

InitCache ==
    /\ pc = "cache"
    /\ excludedOpenOrderBaselineByServiceDay = <<>>
    /\ callIn = NULL
    /\ callOut = NULL
    /\ currentRevenueCents = 0
    /\ baselineFractionAtNow = RInt(0)
    /\ rollingAverageRevenueCents = 0
    /\ elapsedFraction = RInt(0)
    /\ isClosed = FALSE
    /\ projection = NULL
    /\ comparableBucketSeries = <<>>
    /\ bucketCount = 0
    /\ baselineFractions = <<>>
    /\ normalizedFractions = <<>>
    /\ ponrIn = NULL
    /\ ponrOut = NULL
    /\ BuildIdle

\* one poll: buildRealtimeSnapshot sums the excluded open orders, asks for
\* the carryover baseline and counts only what was added since
PollExcludedOpenOrders ==
    /\ pc = "cache"
    /\ \E windowStartMs \in ServiceDaysToPoll(excludedOpenOrderBaselineByServiceDay),
          excludedOpenOrderLabels \in ExcludedLabelLists :
          \E excludedOpenOrdersTotalCents \in
                 ExcludedTotals(windowStartMs, excludedOpenOrderLabels) :
              LET call == getExcludedCarryoverBaselineCents(
                              excludedOpenOrderBaselineByServiceDay, LOCATION_ID,
                              windowStartMs, excludedOpenOrderLabels,
                              excludedOpenOrdersTotalCents)
              IN  /\ excludedOpenOrderBaselineByServiceDay' = call.map
                  /\ callIn' = [ fn |-> "getExcludedCarryoverBaselineCents",
                                 windowStartMs |-> windowStartMs,
                                 excludedLabels |-> excludedOpenOrderLabels,
                                 currentExcludedTotalCents |->
                                     excludedOpenOrdersTotalCents ]
                  /\ callOut' = [ excludedCarryoverBaselineCents |-> call.baselineCents,
                                  excludedOpenOrdersDeltaCents |->
                                      Max(0, excludedOpenOrdersTotalCents
                                               - call.baselineCents) ]
    /\ pc' = pc
    /\ UNCHANGED <<projVars, baseVars, ponrVars, buildVars>>

NextCache == PollExcludedOpenOrders

SpecCache == InitCache /\ [][NextCache]_vars

\* C21: after any sequence of getExcludedCarryoverBaselineCents calls the
\* module-level carryover-baseline map holds at most 200 entries.
C21_MapHoldsAtMostLimit ==
    Len(excludedOpenOrderBaselineByServiceDay) <= CACHE_LIMIT

PolledKey(in) ==
    buildExcludedServiceDayKey(LOCATION_ID, in.windowStartMs, in.excludedLabels)

HasEntry(map, key) == \E i \in 1..Len(map) : map[i].key = key

StoredBaseline(map, key) == map[CHOOSE i \in 1..Len(map) : map[i].key = key].baselineCents

\* what one poll does to the Map and returns, by the state of the Map before
PollKeepsBaseline ==
    LET before == excludedOpenOrderBaselineByServiceDay
        after == excludedOpenOrderBaselineByServiceDay'
        total == callIn'.currentExcludedTotalCents
        key == PolledKey(callIn')
    IN  IF Len(callIn'.excludedLabels) = 0
        THEN /\ callOut'.excludedCarryoverBaselineCents = 0
             /\ after = before
        ELSE IF HasEntry(before, key)
        THEN /\ callOut'.excludedCarryoverBaselineCents = StoredBaseline(before, key)
             /\ StoredBaseline(after, key) = StoredBaseline(before, key)
             /\ callOut'.excludedOpenOrdersDeltaCents
                    = Max(0, total - StoredBaseline(before, key))
        ELSE /\ callOut'.excludedCarryoverBaselineCents = Max(0, total)
             /\ HasEntry(after, key)
             /\ StoredBaseline(after, key) = Max(0, total)
             /\ callOut'.excludedOpenOrdersDeltaCents = 0

\* C22: for a fixed key the first poll stores max(0, current excluded total)
\* as the baseline and returns it, so the delta is 0; every later poll while
\* the entry is in the Map returns that stored baseline whatever the current
\* total, so the delta is max(0, current total - first-poll total); a poll
\* with no excluded label returns 0 and leaves the Map unchanged.
C22_BaselineFixedAtFirstPoll == [][PollKeepsBaseline]_vars

\* a later poll of the first service day: 300 cents were open at the first
\* poll, 800 are open now, the baseline is still 300 and 500 are counted
C22_Witness ==
    /\ pc = "cache"
    /\ callIn # NULL
    /\ callIn.windowStartMs = 1
    /\ callIn.currentExcludedTotalCents = 800
    /\ HasEntry(excludedOpenOrderBaselineByServiceDay, PolledKey(callIn))
    /\ StoredBaseline(excludedOpenOrderBaselineByServiceDay, PolledKey(callIn)) = 300
    /\ callOut.excludedCarryoverBaselineCents = 300
    /\ callOut.excludedOpenOrdersDeltaCents = 500

====
